---- MODULE Spec2Model ----
(***************************************************************************)
(* Model of the QRForm server: the session/passport authentication layer   *)
(* (server/auth.ts), the HTTP routes (server/routes.ts) and the storage    *)
(* layer (server/storage.ts) over the tables of shared/schema.ts.          *)
(*                                                                         *)
(* A client is a cookie jar that issues one request at a time; requests    *)
(* of different clients interleave.  POST /api/register is modelled with   *)
(* one step per awaited storage call, every other handler runs as one      *)
(* step (its gate middleware runs synchronously right after passport has   *)
(* deserialized the user).                                                 *)
(***************************************************************************)
EXTENDS Integers, Sequences, FiniteSets, TLC

\* ------------------------------------------------------------- bounds
MaxUserId == 4
MaxSid == 2
MaxTime == 1
MaxEventId == 1
MaxQrId == 1
MaxRows == 2
MaxCalls == 4
MaxExports == 2
MaxClock == 3
MaxFields == 3
MaxNanoids == 3

\* ------------------------------------------------------------- inputs
Clients == {"c1", "c2"}
LoginUsernames == {"root", "ops", "alice", "nobody"}
LoginPasswords == {"secret1", "wrong99"}
Salts == {<<"5", "f">>, <<"a", "0">>}
UserIds == 1..MaxUserId
EventIds == 1..MaxEventId

NoSid == 0
\* null, of selectedField
Null == [null |-> TRUE]
NoUser == 0
NoRow == [username |-> "", email |-> "", password |-> << >>, role |-> "", banned |-> FALSE,
          createdAt |-> 0, updatedAt |-> 0]
NoBody == [username |-> "", email |-> "", password |-> "", role |-> "", banned |-> FALSE]
NoPend == [body |-> NoBody, nameTaken |-> FALSE, emailTaken |-> FALSE,
           counts |-> << >>, seen |-> << >>]

\* bodies sent to POST /api/register: a privilege escalation attempt, the
\* same username with another email, the same email with another username,
\* and a password that is too short
RegBodies ==
    {[username |-> "alice", email |-> "a@x.com", password |-> "secret1",
      role |-> "admin", banned |-> FALSE],
     [username |-> "alice", email |-> "b@x.com", password |-> "secret1",
      role |-> "user", banned |-> TRUE],
     [username |-> "bob", email |-> "a@x.com", password |-> "secret1",
      role |-> "user", banned |-> FALSE],
     [username |-> "bob", email |-> "b@x.com", password |-> "short",
      role |-> "admin", banned |-> TRUE]}

\* password: z.string().min(6, ...)
MinPasswordLen == 6

\* cookie: { maxAge: 24 * 60 * 60 * 1000 }, in units of 12 hours
SessionTtl == 2

VARIABLES
    users,       \* table users: id -> row
    nextUserId,  \* ids handed out by gen_random_uuid(), never reused
    sessions,    \* session store: sid -> passport.user (a user id)
    nextSid,     \* session ids handed out by express-session, never reused
    cookie,      \* connect.sid held by each client
    kicked,      \* session ids logged out by the ban check of a gate
    events,      \* table events: id -> row
    nextEventId,
    qrSettings,  \* table qr_settings: id -> row
    nextQrId,
    pc,          \* position of a client's POST /api/register
    pend,        \* the POST /api/register in flight: req.body, and whether its
                 \* username and email were taken when it looked them up; the
                 \* GET /api/stats in flight: the counts its queries returned
                 \* and the events table as each query saw it
    now,         \* the clock read by new Date() / defaultNow()
    last,        \* the last response sent
    registrations, \* table registrations: id -> row
    nextRegId,
    formSchemas, \* table form_schemas: id -> row
    nextFormId,
    exportCount, \* DatabaseStorage.exportCount, held in the process's memory
    exportsHandled, \* POST /api/export requests answered by the running process
    expire,      \* session store: sid -> column expire of the session's row
    mounted,     \* the form builder component the browser shows, or "none"
    fields,      \* the builder's state fields
    selectedField, \* the builder's state selectedField
    nanoids,     \* ids handed out by nanoid(), never reused
    isDragging   \* the builder's state isDragging

\* the state of the form builder
builder == <<mounted, fields, selectedField, nanoids, isDragging>>

vars == <<users, nextUserId, sessions, nextSid, cookie, kicked, events,
          nextEventId, qrSettings, nextQrId, pc, pend, now, last,
          registrations, nextRegId, formSchemas, nextFormId, exportCount, exportsHandled,
          expire, builder>>

\* the tables of the database
Tables == [users |-> users, events |-> events, qrSettings |-> qrSettings,
           formSchemas |-> formSchemas, registrations |-> registrations]

Remove(f, k) == [x \in DOMAIN f \ {k} |-> f[x]]

\* .values(values) / .set(values): the columns named in values are written,
\* the others keep their value (the default, for an insert)
SetValues(row, values) ==
    [f \in DOMAIN row |-> IF f \in DOMAIN values THEN values[f] ELSE row[f]]

\* ------------------------------------------------------ credential hasher
\* A string that the hasher formats or parses is a sequence of characters,
\* a Buffer is a sequence of bytes.
HexDigits == <<"0", "1", "2", "3", "4", "5", "6", "7", "8", "9", "a", "b", "c", "d", "e", "f">>

HexValues == [ch \in {HexDigits[i] : i \in DOMAIN HexDigits} |->
                 (CHOOSE i \in DOMAIN HexDigits : HexDigits[i] = ch) - 1]

IsHex(ch) == ch \in DOMAIN HexValues

HexValue(ch) == HexValues[ch]

\* buf.toString("hex"): two digits per byte
toHex(buf) ==
    [i \in 1..(2 * Len(buf)) |->
        IF i % 2 = 1
        THEN HexDigits[(buf[(i + 1) \div 2] \div 16) + 1]
        ELSE HexDigits[(buf[i \div 2] % 16) + 1]]

\* Buffer.from(str, "hex"): one byte per pair of digits, up to the first
\* pair that is not hexadecimal; a last digit without a pair is dropped
fromHex(str) ==
    LET pairs == CHOOSE k \in 0..(Len(str) \div 2) :
                     /\ \A i \in 1..(2 * k) : IsHex(str[i])
                     /\ \/ k = Len(str) \div 2
                        \/ ~(IsHex(str[2 * k + 1]) /\ IsHex(str[2 * k + 2]))
    IN [i \in 1..pairs |-> HexValue(str[2 * i - 1]) * 16 + HexValue(str[2 * i])]

\* str.split(sep)
RECURSIVE split(_, _)
split(str, sep) ==
    IF \E i \in DOMAIN str : str[i] = sep
    THEN LET i == CHOOSE j \in DOMAIN str :
                      str[j] = sep /\ \A k \in 1..(j - 1) : str[k] # sep
         IN <<SubSeq(str, 1, i - 1)>> \o split(SubSeq(str, i + 1, Len(str)), sep)
    ELSE <<str>>

\* the byte a password stands for in a derived key
PasswordBytes == ("secret1" :> 23) @@ ("wrong99" :> 172) @@ ("short" :> 5)

\* the byte a salt stands for in a derived key: any string can be a salt
SaltByte(salt) ==
    IF salt = << >>
    THEN 0
    ELSE LET code(ch) == IF IsHex(ch) THEN HexValue(ch) ELSE 7
         IN IF Len(salt) = 1 THEN code(salt[1]) ELSE code(salt[1]) * 16 + code(salt[2])

\* scrypt(password, salt, 64): a key, of two bytes here, where two
\* passwords never give the same key under one salt
scryptAsync(password, salt) == <<PasswordBytes[password], SaltByte(salt)>>

hashPasswordSaltFirst(password, salt) ==
    salt \o <<".">> \o toHex(scryptAsync(password, salt))

\* `${buf.toString("hex")}.${salt}`, salt = randomBytes(16).toString("hex")
hashPassword(password, salt) ==
    toHex(scryptAsync(password, salt)) \o <<".">> \o salt

\* crypto.timingSafeEqual: a RangeError when the two buffers differ in length
timingSafeEqual(a, b) ==
    IF Len(a) # Len(b) THEN "threw" ELSE IF a = b THEN "true" ELSE "false"

\* const [hashed, salt] = stored.split("."); scrypt throws a TypeError when
\* salt is undefined; the result is "true", "false" or "threw"
comparePasswords(supplied, stored) ==
    CHOOSE result \in
        {IF Len(parts) < 2
         THEN "threw"
         ELSE timingSafeEqual(fromHex(parts[1]), scryptAsync(supplied, parts[2])) :
            parts \in {split(stored, ".")}} : TRUE

\* ------------------------------------------------------------ storage
getUserFirstRow(id) ==
    IF DOMAIN users = {} THEN NoUser ELSE CHOOSE u \in DOMAIN users : \A o \in DOMAIN users : u <= o

\* select().from(users).where(eq(users.id, id)): the row, or undefined
getUser(id) == IF id \in DOMAIN users THEN id ELSE NoUser

getUserByUsernameMisses(username) == NoUser

getUserByUsername(username) ==
    IF \E id \in DOMAIN users : users[id].username = username
    THEN CHOOSE id \in DOMAIN users : users[id].username = username
    ELSE NoUser

getUserByEmail(email) ==
    IF \E id \in DOMAIN users : users[id].email = email
    THEN CHOOSE id \in DOMAIN users : users[id].email = email
    ELSE NoUser

OrderByInsertion(rows, ids, column) ==
    {list \in [1..Cardinality(ids) -> ids] :
        \A i, j \in 1..Cardinality(ids) : i < j => list[i] < list[j]}

\* .orderBy(desc(column)): the rows of a table, newest first; rows of equal
\* timestamp come in an order the database chooses
OrderByDesc(rows, ids, column) ==
    {list \in [1..Cardinality(ids) -> ids] :
        /\ \A i, j \in 1..Cardinality(ids) : i # j => list[i] # list[j]
        /\ \A i, j \in 1..Cardinality(ids) :
               i < j => rows[list[i]][column] >= rows[list[j]][column]}

getAllUsers == OrderByDesc(users, DOMAIN users, "createdAt")

banUserWritesRole(id) == [users EXCEPT ![id].banned = TRUE, ![id].role = "admin",
                                       ![id].updatedAt = now]

\* .set({ banned: true, updatedAt: new Date() }).where(eq(users.id, id))
banUser(id) == [users EXCEPT ![id].banned = TRUE, ![id].updatedAt = now]

\* .set({ banned: false, updatedAt: new Date() }).where(eq(users.id, id))
unbanUser(id) == [users EXCEPT ![id].banned = FALSE, ![id].updatedAt = now]

\* --------------------------------------------------- session + passport
\* express-session loads the session named by the cookie; the store selects
\* the row WHERE sid = $1 AND expire >= to_timestamp($2), $2 the time of the
\* request
Loaded(c) ==
    /\ cookie[c] # NoSid
    /\ cookie[c] \in DOMAIN sessions
    /\ expire[cookie[c]] >= now

\* passport.deserializeUser: req.user, or NoUser when the row is gone
ReqUser(c) == IF Loaded(c) THEN getUser(sessions[cookie[c]]) ELSE NoUser

\* passport's session strategy drops passport.user when deserializeUser yields
\* no user; the modified session is saved when the response ends
Deserialized(c) ==
    IF Loaded(c) /\ ReqUser(c) = NoUser THEN Remove(sessions, cookie[c]) ELSE sessions

\* req.isAuthenticated()
isAuthenticated(c) == ReqUser(c) # NoUser

logoutKeepsSession(c) == sessions

\* req.logout(): passport removes the user from the session, saves it and
\* regenerates it, which destroys the row of the old id in the store
logout(c) == IF Loaded(c) THEN Remove(sessions, cookie[c]) ELSE sessions

\* what the request of client c carries: a session id a ban check revoked,
\* no user, a banned user, or a user of some role
SessCase(c) ==
    IF isAuthenticated(c)
    THEN IF users[ReqUser(c)].banned THEN "banned" ELSE users[ReqUser(c)].role
    ELSE IF cookie[c] \in kicked THEN "revoked" ELSE "anon"

\* a response, with what the request carried; ran: the route's handler ran
Response(route, c, status, message, kase) ==
    [route |-> route, status |-> status, message |-> message, kase |-> kase,
     sess |-> SessCase(c), ran |-> TRUE, sid |-> NoSid, newSid |-> NoSid, issued |-> 0,
     target |-> NoUser, before |-> NoRow, actor |-> NoUser, body |-> << >>]

\* the user object of a response: { id: user.id, username: user.username,
\* email: user.email, role: user.role, banned: user.banned,
\* createdAt: user.createdAt }
SanitizedUserWithPassword(id, user) ==
    [id |-> id, username |-> user.username, email |-> user.email, password |-> user.password,
     role |-> user.role, banned |-> user.banned, createdAt |-> user.createdAt]

SanitizedUser(id, user) ==
    [id |-> id, username |-> user.username, email |-> user.email,
     role |-> user.role, banned |-> user.banned, createdAt |-> user.createdAt]

\* what express-session does to column expire when the response of client
\* c's request ends: a session saved under a new id gets the expiry of its
\* cookie, now + maxAge; the session the request loaded has had its cookie's
\* expiry reset by req.session.touch() and is saved or, when unmodified,
\* handed to store.touch, which writes that expiry to its row; the rows of
\* the other sessions stay as they are
touch(c) ==
    expire' = [s \in DOMAIN sessions' |->
                  IF s \notin DOMAIN sessions
                  THEN now + SessionTtl
                  ELSE IF s = cookie[c] /\ Loaded(c) /\ pc'[c] = "idle"
                  THEN now + SessionTtl
                  ELSE expire[s]]

\* ---------------------------------------------------------- middleware
requireAuthNoLogout(c) ==
    IF ~isAuthenticated(c)
    THEN [pass |-> FALSE, status |-> 401, message |-> "Authentication required",
          sessions |-> Deserialized(c), kick |-> {}]
    ELSE IF users[ReqUser(c)].banned
    THEN [pass |-> FALSE, status |-> 403, message |-> "Access denied",
          sessions |-> sessions, kick |-> {}]
    ELSE [pass |-> TRUE, status |-> 200, message |-> "", sessions |-> sessions, kick |-> {}]

requireAuth(c) ==
    IF ~isAuthenticated(c)
    THEN [pass |-> FALSE, status |-> 401, message |-> "Authentication required",
          sessions |-> Deserialized(c), kick |-> {}]
    ELSE IF users[ReqUser(c)].banned
    THEN [pass |-> FALSE, status |-> 403, message |-> "Access denied",
          sessions |-> logout(c), kick |-> {cookie[c]}]
    ELSE [pass |-> TRUE, status |-> 200, message |-> "", sessions |-> sessions, kick |-> {}]

requireAdminRoleFirst(c) ==
    IF ~isAuthenticated(c)
    THEN [pass |-> FALSE, status |-> 401, message |-> "Authentication required",
          sessions |-> Deserialized(c), kick |-> {}]
    ELSE IF users[ReqUser(c)].role # "admin"
    THEN [pass |-> FALSE, status |-> 403, message |-> "Admin access required",
          sessions |-> sessions, kick |-> {}]
    ELSE IF users[ReqUser(c)].banned
    THEN [pass |-> FALSE, status |-> 403, message |-> "Access denied",
          sessions |-> logout(c), kick |-> {cookie[c]}]
    ELSE [pass |-> TRUE, status |-> 200, message |-> "", sessions |-> sessions, kick |-> {}]

requireAdmin(c) ==
    IF ~isAuthenticated(c)
    THEN [pass |-> FALSE, status |-> 401, message |-> "Authentication required",
          sessions |-> Deserialized(c), kick |-> {}]
    ELSE IF users[ReqUser(c)].banned
    THEN [pass |-> FALSE, status |-> 403, message |-> "Access denied",
          sessions |-> logout(c), kick |-> {cookie[c]}]
    ELSE IF users[ReqUser(c)].role # "admin"
    THEN [pass |-> FALSE, status |-> 403, message |-> "Admin access required",
          sessions |-> sessions, kick |-> {}]
    ELSE [pass |-> TRUE, status |-> 200, message |-> "", sessions |-> sessions, kick |-> {}]

\* the gate answered: the handler does not run
Gated(route, c, gate) ==
    /\ last' = [Response(route, c, gate.status, gate.message, "gate")
                   EXCEPT !.ran = FALSE, !.sid = cookie[c], !.actor = ReqUser(c)]
    /\ sessions' = gate.sessions
    /\ kicked' = kicked \cup gate.kick

\* ------------------------------------------------------------- initial
\* A deployed database, no sessions, nothing in flight.  Administrators are
\* made out of band: no route of the API writes role "admin".
SeedUser(username, email, role) ==
    [username |-> username, email |-> email, password |-> hashPassword("secret1", <<"5", "f">>),
     role |-> role, banned |-> FALSE, createdAt |-> 0, updatedAt |-> 0]

InitServer(seed) ==
    /\ users = seed
    /\ nextUserId = Cardinality(DOMAIN seed) + 1
    /\ sessions = << >>
    /\ nextSid = 1
    /\ cookie = [c \in Clients |-> NoSid]
    /\ kicked = {}
    /\ events = << >>
    /\ nextEventId = 1
    /\ qrSettings = << >>
    /\ nextQrId = 1
    /\ pc = [c \in Clients |-> "idle"]
    /\ pend = [c \in Clients |-> NoPend]
    /\ now = 0
    /\ registrations = << >>
    /\ nextRegId = 1
    /\ formSchemas = << >>
    /\ nextFormId = 1
    /\ exportCount = 0
    /\ exportsHandled = 0
    /\ expire = << >>
    /\ last = [route |-> "none", status |-> 0, message |-> "", kase |-> "",
               sess |-> "anon", ran |-> FALSE, sid |-> NoSid, newSid |-> NoSid,
               issued |-> 0, target |-> NoUser, before |-> NoRow, actor |-> NoUser,
               body |-> << >>]

\* useState(initialSchema), useState(null) of the component the browser
\* shows; the ids of initialSchema came from nanoid() when it was built
Mount(component, initialSchema) ==
    /\ mounted = component
    /\ fields = initialSchema
    /\ selectedField = Null
    /\ nanoids = Len(initialSchema)
    /\ isDragging = FALSE

\* the server is started and no browser shows a form builder
InitWith(seed) == InitServer(seed) /\ Mount("none", << >>)

Idle(c) == pc[c] = "idle"

\* ------------------------------------------------------------ environment
\* time passes
Tick ==
    /\ now < MaxTime
    /\ now' = now + 1
    /\ UNCHANGED <<users, nextUserId, sessions, nextSid, cookie, kicked, events,
                   nextEventId, qrSettings, nextQrId, pc, pend, last>>
    /\ UNCHANGED <<registrations, nextRegId, formSchemas, nextFormId, exportCount, exportsHandled>>
    /\ UNCHANGED <<expire, builder>>

\* a client comes to hold a session id issued earlier (a planted or copied
\* cookie)
AdoptCookie(c, s) ==
    /\ Idle(c)
    /\ s \in 1..(nextSid - 1)
    /\ s # cookie[c]
    /\ cookie' = [cookie EXCEPT ![c] = s]
    /\ UNCHANGED <<users, nextUserId, sessions, nextSid, kicked, events, nextEventId,
                   qrSettings, nextQrId, pc, pend, now, last>>
    /\ UNCHANGED <<registrations, nextRegId, formSchemas, nextFormId, exportCount, exportsHandled>>
    /\ UNCHANGED <<expire, builder>>

\* --------------------------------------------------------------- login
LocalStrategyVerifyThrowsOnBanned(username, password) ==
    LET u == getUserByUsername(username) IN
    IF u = NoUser
    THEN [err |-> FALSE, user |-> NoUser, kase |-> "nouser"]
    ELSE IF users[u].banned
    THEN [err |-> TRUE, user |-> NoUser, kase |-> "banned"]
    ELSE CHOOSE done \in
             {IF verified = "threw"
              THEN [err |-> TRUE, user |-> NoUser, kase |-> "error"]
              ELSE IF verified = "false"
              THEN [err |-> FALSE, user |-> NoUser, kase |-> "wrongpw"]
              ELSE [err |-> FALSE, user |-> u, kase |-> "ok"] :
                 verified \in {comparePasswords(password, users[u].password)}} : TRUE

\* the verify callback of the LocalStrategy: done(err) or done(null, user)
\* or done(null, false, info)
LocalStrategyVerify(username, password) ==
    LET u == getUserByUsername(username) IN
    IF u = NoUser
    THEN [err |-> FALSE, user |-> NoUser, kase |-> "nouser"]
    ELSE IF users[u].banned
    THEN [err |-> FALSE, user |-> NoUser, kase |-> "banned"]
    ELSE CHOOSE done \in
             {IF verified = "threw"
              THEN [err |-> TRUE, user |-> NoUser, kase |-> "error"]
              ELSE IF verified = "false"
              THEN [err |-> FALSE, user |-> NoUser, kase |-> "wrongpw"]
              ELSE [err |-> FALSE, user |-> u, kase |-> "ok"] :
                 verified \in {comparePasswords(password, users[u].password)}} : TRUE

loginKeepsSessionId(c, user) ==
    LET id == IF Loaded(c) THEN cookie[c] ELSE nextSid IN
    /\ sessions' = [s \in DOMAIN sessions \cup {id} |-> IF s = id THEN user ELSE sessions[s]]
    /\ nextSid' = IF Loaded(c) THEN nextSid ELSE nextSid + 1
    /\ cookie' = [cookie EXCEPT ![c] = id]

\* req.session.regenerate(...) followed by req.login(user, ...): the store
\* row of the request's session id is destroyed, a fresh id is generated,
\* the user is serialized into the new session and the cookie is set
regenerate(c, user) ==
    /\ sessions' = [s \in (DOMAIN sessions \ (IF Loaded(c) THEN {cookie[c]} ELSE {}))
                             \cup {nextSid} |->
                       IF s = nextSid THEN user ELSE sessions[s]]
    /\ nextSid' = nextSid + 1
    /\ cookie' = [cookie EXCEPT ![c] = nextSid]

LoginFailureDestroysSession(c, username, password) ==
    /\ Idle(c)
    /\ \E v \in {LocalStrategyVerify(username, password)} :
       IF v.err
       THEN /\ last' = Response("login", c, 500, "Internal Server Error", v.kase)
            /\ sessions' = Deserialized(c)
            /\ UNCHANGED <<nextSid, cookie>>
       ELSE IF v.user = NoUser
       THEN /\ last' = Response("login", c, 401, "Invalid credentials", v.kase)
            /\ sessions' = logout(c)
            /\ UNCHANGED <<nextSid, cookie>>
       ELSE /\ nextSid <= MaxSid
            /\ regenerate(c, v.user)
            /\ last' = [Response("login", c, 200, "", v.kase)
                           EXCEPT !.sid = cookie[c], !.newSid = cookie'[c],
                                  !.issued = nextSid - 1, !.target = v.user,
                                  !.body = <<SanitizedUser(v.user, users[v.user])>>]
    /\ UNCHANGED <<users, nextUserId, kicked, events, nextEventId, qrSettings, nextQrId,
                   pc, pend, now>>
    /\ UNCHANGED <<registrations, nextRegId, formSchemas, nextFormId, exportCount, exportsHandled>>
    /\ touch(c)
    /\ UNCHANGED builder

\* POST /api/login
Login(c, username, password) ==
    /\ Idle(c)
    /\ \E v \in {LocalStrategyVerify(username, password)} :
       IF v.err
       THEN /\ last' = Response("login", c, 500, "Internal Server Error", v.kase)
            /\ sessions' = Deserialized(c)
            /\ UNCHANGED <<nextSid, cookie>>
       ELSE IF v.user = NoUser
       THEN /\ last' = Response("login", c, 401, "Invalid credentials", v.kase)
            /\ sessions' = Deserialized(c)
            /\ UNCHANGED <<nextSid, cookie>>
       ELSE /\ nextSid <= MaxSid
            /\ regenerate(c, v.user)
            /\ last' = [Response("login", c, 200, "", v.kase)
                           EXCEPT !.sid = cookie[c], !.newSid = cookie'[c],
                                  !.issued = nextSid - 1, !.target = v.user,
                                  !.body = <<SanitizedUser(v.user, users[v.user])>>]
    /\ UNCHANGED <<users, nextUserId, kicked, events, nextEventId, qrSettings, nextQrId,
                   pc, pend, now>>
    /\ UNCHANGED <<registrations, nextRegId, formSchemas, nextFormId, exportCount, exportsHandled>>
    /\ touch(c)
    /\ UNCHANGED builder

\* POST /api/logout: req.logout, req.session.destroy, res.clearCookie,
\* res.sendStatus(200); the response is marked "again" when the request
\* repeats, with the same cookie, the logout answered just before
Logout(c) ==
    /\ Idle(c)
    /\ sessions' = logout(c)
    /\ cookie' = [cookie EXCEPT ![c] = NoSid]
    /\ last' = [Response("logout", c, 200, "OK",
                         IF last.route = "logout" /\ cookie[c] # NoSid /\ last.sid = cookie[c]
                         THEN "again" ELSE "")
                   EXCEPT !.sid = cookie[c]]
    /\ UNCHANGED <<users, nextUserId, nextSid, kicked, events, nextEventId,
                   qrSettings, nextQrId, pc, pend, now>>
    /\ UNCHANGED <<registrations, nextRegId, formSchemas, nextFormId, exportCount, exportsHandled>>
    /\ touch(c)
    /\ UNCHANGED builder

\* GET /api/user
CurrentUser(c) ==
    /\ Idle(c)
    /\ IF ~isAuthenticated(c)
       THEN last' = Response("user", c, 401, "Unauthorized", "")
       ELSE last' = [Response("user", c, 200, "", "")
                        EXCEPT !.body = <<SanitizedUser(ReqUser(c), users[ReqUser(c)])>>]
    /\ sessions' = Deserialized(c)
    /\ UNCHANGED <<users, nextUserId, nextSid, cookie, kicked, events, nextEventId,
                   qrSettings, nextQrId, pc, pend, now>>
    /\ UNCHANGED <<registrations, nextRegId, formSchemas, nextFormId, exportCount, exportsHandled>>
    /\ touch(c)
    /\ UNCHANGED builder

\* ---------------------------------------------------- user management
\* GET /api/users
ListUsers(c) ==
    /\ Idle(c)
    /\ IF ~requireAdmin(c).pass
       THEN Gated("users", c, requireAdmin(c))
       ELSE /\ \E list \in getAllUsers :
                   last' = [Response("users", c, 200, "", "")
                               EXCEPT !.body = [i \in DOMAIN list |->
                                                   SanitizedUser(list[i], users[list[i]])]]
            /\ UNCHANGED <<sessions, kicked>>
    /\ UNCHANGED <<users, nextUserId, nextSid, cookie, events, nextEventId,
                   qrSettings, nextQrId, pc, pend, now>>
    /\ UNCHANGED <<registrations, nextRegId, formSchemas, nextFormId, exportCount, exportsHandled>>
    /\ touch(c)
    /\ UNCHANGED builder

\* req.user?.id === req.params.id
selfGuardOff(c, id) == FALSE

selfGuard(c, id) == ReqUser(c) = id

\* the response of a user management handler; when the admin names their
\* own id it is marked "self" and keeps the row as it was before
AdminResponse(route, c, id, status, message) ==
    IF ReqUser(c) = id
    THEN [Response(route, c, status, message, "self")
             EXCEPT !.target = id, !.before = users[id]]
    ELSE Response(route, c, status, message, "")

\* PATCH /api/users/:id/ban
BanUser(c, id) ==
    /\ Idle(c)
    /\ IF ~requireAdmin(c).pass
       THEN Gated("ban", c, requireAdmin(c)) /\ UNCHANGED users
       ELSE /\ UNCHANGED <<sessions, kicked>>
            /\ IF selfGuard(c, id)
               THEN /\ last' = AdminResponse("ban", c, id, 400, "Cannot ban yourself")
                    /\ UNCHANGED users
               ELSE IF id \notin DOMAIN users
               THEN /\ last' = AdminResponse("ban", c, id, 404, "User not found")
                    /\ UNCHANGED users
               ELSE /\ users' = banUser(id)
                    /\ last' = AdminResponse("ban", c, id, 200, "User banned successfully")
    /\ UNCHANGED <<nextUserId, nextSid, cookie, events, nextEventId, qrSettings,
                   nextQrId, pc, pend, now>>
    /\ UNCHANGED <<registrations, nextRegId, formSchemas, nextFormId, exportCount, exportsHandled>>
    /\ touch(c)
    /\ UNCHANGED builder

\* PATCH /api/users/:id/unban
UnbanUser(c, id) ==
    /\ Idle(c)
    /\ IF ~requireAdmin(c).pass
       THEN Gated("unban", c, requireAdmin(c)) /\ UNCHANGED users
       ELSE /\ UNCHANGED <<sessions, kicked>>
            /\ IF id \notin DOMAIN users
               THEN /\ last' = AdminResponse("unban", c, id, 404, "User not found")
                    /\ UNCHANGED users
               ELSE /\ users' = unbanUser(id)
                    /\ last' = AdminResponse("unban", c, id, 200, "User unbanned successfully")
    /\ UNCHANGED <<nextUserId, nextSid, cookie, events, nextEventId, qrSettings,
                   nextQrId, pc, pend, now>>
    /\ UNCHANGED <<registrations, nextRegId, formSchemas, nextFormId, exportCount, exportsHandled>>
    /\ touch(c)
    /\ UNCHANGED builder

\* the foreign key events.user_id -> users.id rejects the delete
UserReferencedOff(id) == FALSE

\* the foreign key events.user_id -> users.id rejects the delete
UserReferenced(id) == \E e \in DOMAIN events : events[e].userId = id

\* DELETE /api/users/:id
DeleteUser(c, id) ==
    /\ Idle(c)
    /\ IF ~requireAdmin(c).pass
       THEN Gated("deleteUser", c, requireAdmin(c)) /\ UNCHANGED users
       ELSE /\ UNCHANGED <<sessions, kicked>>
            /\ IF selfGuard(c, id)
               THEN /\ last' = AdminResponse("deleteUser", c, id, 400, "Cannot delete yourself")
                    /\ UNCHANGED users
               ELSE IF UserReferenced(id)
               THEN /\ last' = AdminResponse("deleteUser", c, id, 500, "Failed to delete user")
                    /\ UNCHANGED users
               ELSE IF id \notin DOMAIN users
               THEN /\ last' = AdminResponse("deleteUser", c, id, 404, "User not found")
                    /\ UNCHANGED users
               ELSE /\ users' = Remove(users, id)
                    /\ last' = AdminResponse("deleteUser", c, id, 204, "")
    /\ UNCHANGED <<nextUserId, nextSid, cookie, events, nextEventId, qrSettings,
                   nextQrId, pc, pend, now>>
    /\ UNCHANGED <<registrations, nextRegId, formSchemas, nextFormId, exportCount, exportsHandled>>
    /\ touch(c)
    /\ UNCHANGED builder

\* ---------------------------------------------------------- qr settings
getQrSettings(eventId) ==
    IF \E q \in DOMAIN qrSettings : qrSettings[q].eventId = eventId
    THEN CHOOSE q \in DOMAIN qrSettings : qrSettings[q].eventId = eventId
    ELSE 0

\* GET /api/qr-settings/:eventId
GetQrSettings(c, eventId) ==
    /\ Idle(c)
    /\ IF ~requireAuth(c).pass
       THEN Gated("getQr", c, requireAuth(c))
       ELSE /\ UNCHANGED <<sessions, kicked>>
            /\ IF getQrSettings(eventId) = 0
               THEN last' = Response("getQr", c, 404, "QR settings not found", "")
               ELSE last' = Response("getQr", c, 200, "", "")
    /\ UNCHANGED <<users, nextUserId, nextSid, cookie, events, nextEventId,
                   qrSettings, nextQrId, pc, pend, now>>
    /\ UNCHANGED <<registrations, nextRegId, formSchemas, nextFormId, exportCount, exportsHandled>>
    /\ touch(c)
    /\ UNCHANGED builder

\* ---------------------------------------------------------------- events
\* stands for the name of a body that has none: insertEventSchema.parse
\* throws a ZodError
Missing == "undefined"

\* a url is a pair of a path prefix and an id; no url is the empty tuple
NoUrl == << >>

\* bodies sent to POST /api/events; they carry a registrationUrl and a
\* qrCodeUrl of the caller's choosing
EventBodies == [userId : UserIds, name : {"Spring Fair", Missing}, isActive : {TRUE},
                registrationUrl : {<<"/elsewhere/", 9>>},
                qrCodeUrl : {<<"/qr/", 9>>}]

\* bodies sent to PATCH /api/events/:id; insertEventSchema.partial() lets
\* any of userId, name and isActive through
EventPatches ==
    {[f \in {"isActive"} |-> FALSE], [f \in {"name"} |-> "Autumn Fair"]}
        \cup {[f \in {"userId"} |-> u] : u \in UserIds}

\* insertEventSchema.parse(req.body): name is required; id, qrCodeUrl,
\* registrationUrl, createdAt and updatedAt are omitted from the schema, so
\* the parsed data does not carry them
insertEventSchema(body) ==
    [ok |-> body.name # Missing,
     data |-> [userId |-> body.userId, name |-> body.name, isActive |-> body.isActive]]

\* the column defaults of the events table
EventDefaults ==
    [userId |-> NoUser, name |-> Missing, isActive |-> TRUE, registrationUrl |-> NoUrl,
     qrCodeUrl |-> NoUrl, createdAt |-> now, updatedAt |-> now]

CreateEventValuesCallerWins(insertEvent) ==
    SetValues(EventDefaults,
              insertEvent @@ [registrationUrl |-> <<"/register/", insertEvent.userId>>,
                              qrCodeUrl |-> NoUrl])

\* storage.createEvent: { ...insertEvent, registrationUrl:
\* `/register/${insertEvent.userId}`, qrCodeUrl: null }
CreateEventValues(insertEvent) ==
    SetValues(EventDefaults,
              [registrationUrl |-> <<"/register/", insertEvent.userId>>,
               qrCodeUrl |-> NoUrl] @@ insertEvent)

\* storage.updateEvent: .set({ ...eventUpdate, updatedAt: new Date() })
UpdateEventValues(row, patch) ==
    [f \in DOMAIN row |->
        IF f = "updatedAt" THEN now ELSE IF f \in DOMAIN patch THEN patch[f] ELSE row[f]]

\* the response of an events handler, with the user the request is
\* authenticated as and the owner of the event it names
EventResponse(route, c, owner, status, message) ==
    [Response(route, c, status, message, "") EXCEPT !.actor = ReqUser(c), !.target = owner]

\* POST /api/events
CreateEvent(c, body) ==
    /\ Idle(c)
    /\ sessions' = Deserialized(c)
    /\ IF ~insertEventSchema(body).ok
       THEN /\ last' = EventResponse("createEvent", c, NoUser, 400, "Invalid event data")
            /\ UNCHANGED <<events, nextEventId>>
       ELSE IF body.userId \notin DOMAIN users
       THEN /\ last' = EventResponse("createEvent", c, NoUser, 500, "Failed to create event")
            /\ UNCHANGED <<events, nextEventId>>
       ELSE /\ nextEventId <= MaxEventId
            /\ events' = events @@ (nextEventId :> CreateEventValues(insertEventSchema(body).data))
            /\ nextEventId' = nextEventId + 1
            /\ last' = EventResponse("createEvent", c, body.userId, 201, "")
    /\ UNCHANGED <<users, nextUserId, nextSid, cookie, kicked, qrSettings, nextQrId,
                   pc, pend, now>>
    /\ UNCHANGED <<registrations, nextRegId, formSchemas, nextFormId, exportCount, exportsHandled>>
    /\ touch(c)
    /\ UNCHANGED builder

\* PATCH /api/events/:id
UpdateEvent(c, id, patch) ==
    /\ Idle(c)
    /\ sessions' = Deserialized(c)
    /\ IF id \notin DOMAIN events
       THEN /\ last' = EventResponse("updateEvent", c, NoUser, 404, "Event not found")
            /\ UNCHANGED events
       ELSE IF "userId" \in DOMAIN patch /\ patch["userId"] \notin DOMAIN users
       THEN /\ last' = EventResponse("updateEvent", c, events[id].userId, 500,
                                     "Failed to update event")
            /\ UNCHANGED events
       ELSE /\ events' = [events EXCEPT ![id] = UpdateEventValues(events[id], patch)]
            /\ last' = EventResponse("updateEvent", c, events[id].userId, 200, "")
    /\ UNCHANGED <<users, nextUserId, nextSid, cookie, kicked, nextEventId, qrSettings,
                   nextQrId, pc, pend, now>>
    /\ UNCHANGED <<registrations, nextRegId, formSchemas, nextFormId, exportCount, exportsHandled>>
    /\ touch(c)
    /\ UNCHANGED builder

\* the foreign keys qr_settings.event_id, form_schemas.event_id and
\* registrations.event_id -> events.id reject the delete
EventReferencedOff(id) == FALSE

EventReferenced(id) ==
    \/ \E q \in DOMAIN qrSettings : qrSettings[q].eventId = id
    \/ \E f \in DOMAIN formSchemas : formSchemas[f].eventId = id
    \/ \E r \in DOMAIN registrations : registrations[r].eventId = id

\* the column defaults of the qr_settings table
QrSettingsDefaults == [eventId |-> 0, qrSize |-> 200, createdAt |-> now, updatedAt |-> now]

\* DELETE /api/events/:id
DeleteEvent(c, id) ==
    /\ Idle(c)
    /\ sessions' = Deserialized(c)
    /\ IF id \notin DOMAIN events
       THEN /\ last' = EventResponse("deleteEvent", c, NoUser, 404, "Event not found")
            /\ UNCHANGED events
       ELSE IF EventReferenced(id)
       THEN /\ last' = EventResponse("deleteEvent", c, events[id].userId, 500,
                                     "Failed to delete event")
            /\ UNCHANGED events
       ELSE /\ events' = Remove(events, id)
            /\ last' = EventResponse("deleteEvent", c, events[id].userId, 204, "")
    /\ UNCHANGED <<users, nextUserId, nextSid, cookie, kicked, nextEventId, qrSettings,
                   nextQrId, pc, pend, now>>
    /\ UNCHANGED <<registrations, nextRegId, formSchemas, nextFormId, exportCount, exportsHandled>>
    /\ touch(c)
    /\ UNCHANGED builder

\* POST /api/qr-settings: storage.createQrSettings(req.body)
CreateQrSettings(c, eventId) ==
    /\ Idle(c)
    /\ IF ~requireAuth(c).pass
       THEN Gated("createQr", c, requireAuth(c)) /\ UNCHANGED <<qrSettings, nextQrId>>
       ELSE /\ UNCHANGED <<sessions, kicked>>
            /\ IF eventId \notin DOMAIN events
               THEN /\ last' = Response("createQr", c, 500, "Failed to create QR settings", "")
                    /\ UNCHANGED <<qrSettings, nextQrId>>
               ELSE /\ nextQrId <= MaxQrId
                    /\ qrSettings' = qrSettings @@
                           (nextQrId :> SetValues(QrSettingsDefaults, [eventId |-> eventId]))
                    /\ nextQrId' = nextQrId + 1
                    /\ last' = Response("createQr", c, 201, "", "")
    /\ UNCHANGED <<users, nextUserId, nextSid, cookie, events, nextEventId, pc, pend, now>>
    /\ UNCHANGED <<registrations, nextRegId, formSchemas, nextFormId, exportCount, exportsHandled>>
    /\ touch(c)
    /\ UNCHANGED builder

\* ------------------------------------------------------------ register
\* registrationSchema.parse(req.body): username, email and password are
\* kept (role and banned are omitted from the schema, id and the
\* timestamps too), and the password has at least MinPasswordLen characters
registrationSchema(body) ==
    [ok |-> Len(body.password) >= MinPasswordLen,
     username |-> body.username, email |-> body.email, password |-> body.password]

CreateUserValuesFromBody(body, salt) ==
    [username |-> registrationSchema(body).username,
     email |-> registrationSchema(body).email,
     password |-> hashPassword(registrationSchema(body).password, salt),
     role |-> body.role, banned |-> body.banned,
     createdAt |-> now, updatedAt |-> now]

\* the row storage.createUser inserts: { ...userData, password: hash,
\* role: "user", banned: false }, createdAt/updatedAt by defaultNow()
CreateUserValues(body, salt) ==
    [username |-> registrationSchema(body).username,
     email |-> registrationSchema(body).email,
     password |-> hashPassword(registrationSchema(body).password, salt),
     role |-> "user", banned |-> FALSE,
     createdAt |-> now, updatedAt |-> now]

UniqueViolationOff(row) == FALSE

\* the unique constraints on users.username and users.email
UniqueViolation(row) ==
    \E id \in DOMAIN users :
        users[id].username = row.username \/ users[id].email = row.email

UsernameTaken(username) == \E id \in DOMAIN users : users[id].username = username
EmailTaken(email) == \E id \in DOMAIN users : users[id].email = email

InFlight == Cardinality({c \in Clients : pc[c] # "idle"})

\* POST /api/register up to the first lookup: parse the body, then
\* storage.getUserByUsername
RegisterStart(c, body) ==
    /\ Idle(c)
    /\ nextUserId + InFlight <= MaxUserId
    /\ nextSid + InFlight <= MaxSid
    /\ sessions' = Deserialized(c)
    /\ IF ~registrationSchema(body).ok
       THEN /\ last' = Response("register", c, 400, "Invalid user data", "invalid")
            /\ UNCHANGED <<pc, pend>>
       ELSE IF getUserByUsername(registrationSchema(body).username) # NoUser
       THEN /\ last' = Response("register", c, 400, "Username already exists", "dupname")
            /\ UNCHANGED <<pc, pend>>
       ELSE /\ pc' = [pc EXCEPT ![c] = "email"]
            /\ pend' = [pend EXCEPT ![c] = [body |-> body,
                                            nameTaken |-> UsernameTaken(body.username),
                                            emailTaken |-> FALSE,
                                            counts |-> << >>, seen |-> << >>]]
            /\ UNCHANGED last
    /\ UNCHANGED <<users, nextUserId, nextSid, cookie, kicked, events, nextEventId,
                   qrSettings, nextQrId, now>>
    /\ UNCHANGED <<registrations, nextRegId, formSchemas, nextFormId, exportCount, exportsHandled>>
    /\ touch(c)
    /\ UNCHANGED builder

\* ... its second lookup: storage.getUserByEmail
RegisterEmail(c) ==
    /\ pc[c] = "email"
    /\ IF getUserByEmail(registrationSchema(pend[c].body).email) # NoUser
       THEN /\ last' = Response("register", c, 400, "Email already exists", "dupemail")
            /\ pc' = [pc EXCEPT ![c] = "idle"]
            /\ pend' = [pend EXCEPT ![c] = NoPend]
       ELSE /\ pc' = [pc EXCEPT ![c] = "insert"]
            /\ pend' = [pend EXCEPT ![c].emailTaken = EmailTaken(pend[c].body.email)]
            /\ UNCHANGED last
    /\ UNCHANGED <<users, nextUserId, sessions, nextSid, cookie, kicked, events,
                   nextEventId, qrSettings, nextQrId, now>>
    /\ UNCHANGED <<registrations, nextRegId, formSchemas, nextFormId, exportCount, exportsHandled>>
    /\ touch(c)
    /\ UNCHANGED builder

\* ... hashPassword, storage.createUser, then regenerate, login and the
\* 201; an insert the unique constraints reject throws into the catch
\* block, which answers every error but a ZodError with the 500
RegisterInsert(c, salt) ==
    /\ pc[c] = "insert"
    /\ pc' = [pc EXCEPT ![c] = "idle"]
    /\ pend' = [pend EXCEPT ![c] = NoPend]
    /\ IF UniqueViolation(CreateUserValues(pend[c].body, salt))
       THEN /\ last' = Response("register", c, 500, "Failed to create user", "race")
            /\ UNCHANGED <<users, nextUserId, sessions, nextSid, cookie>>
       ELSE /\ users' = users @@ (nextUserId :> CreateUserValues(pend[c].body, salt))
            /\ nextUserId' = nextUserId + 1
            /\ regenerate(c, nextUserId)
            /\ last' = [Response("register", c, 201, "", "created")
                           EXCEPT !.sid = cookie[c], !.newSid = cookie'[c],
                                  !.issued = nextSid - 1, !.target = nextUserId,
                                  !.body = <<SanitizedUser(nextUserId,
                                                 CreateUserValues(pend[c].body, salt))>>]
    /\ UNCHANGED <<kicked, events, nextEventId, qrSettings, nextQrId, now>>
    /\ UNCHANGED <<registrations, nextRegId, formSchemas, nextFormId, exportCount, exportsHandled>>
    /\ touch(c)
    /\ UNCHANGED builder

\* ------------------------------------------------- sessions and gates
Init ==
    InitWith((1 :> SeedUser("root", "root@x.com", "admin"))
             @@ (2 :> SeedUser("ops", "ops@x.com", "admin"))
             @@ (3 :> SeedUser("alice", "a@x.com", "user")))

Next ==
    \/ \E c \in Clients, u \in LoginUsernames, p \in LoginPasswords : Login(c, u, p)
    \/ \E c \in Clients : Logout(c)
    \/ \E c \in Clients : CurrentUser(c)
    \/ \E c \in Clients : ListUsers(c)
    \/ \E c \in Clients, id \in 1..nextUserId : BanUser(c, id)
    \/ \E c \in Clients, id \in 1..nextUserId : UnbanUser(c, id)
    \/ \E c \in Clients, e \in EventIds : GetQrSettings(c, e)

Spec == Init /\ [][Next]_vars

\* the routes behind requireAuth or requireAdmin
GatedRoutes == {"users", "ban", "unban", "deleteUser", "getQr", "createQr"}

\* C1: a gated request on a session bound to a banned user is answered 403
\* by the gate (the handler does not run) and its session id loads no user
\* afterwards; a gated request carrying a session id revoked this way is
\* answered 401 by the gate; a revoked id never loads a user again.
BannedSessionRevoked ==
    /\ (last.route \in GatedRoutes /\ last.sess = "banned") =>
           /\ last.status = 403
           /\ ~last.ran
           /\ last.sid # NoSid
           /\ last.sid \notin DOMAIN sessions
           /\ last.sid \in kicked
    /\ (last.route \in GatedRoutes /\ last.sess = "revoked") =>
           /\ last.status = 401
           /\ ~last.ran
    /\ kicked \cap DOMAIN sessions = {}

BannedSessionRevokedWitness ==
    /\ last.route \in GatedRoutes
    /\ last.sess = "revoked"
    /\ last.status = 401
    /\ last.sid \in kicked

\* C3: every failed login (no such user, wrong password, banned user) gets
\* the same status and body.
LoginFailuresIndistinguishable ==
    (last.route = "login" /\ last.kase \in {"nouser", "wrongpw", "banned"})
        => (last.status = 401 /\ last.message = "Invalid credentials")

LoginFailuresIndistinguishableWitness ==
    last.route = "login" /\ last.kase = "banned" /\ last.status = 401

\* C8: GET /api/user on a session bound to a banned user is answered 403,
\* never 200.
CurrentUserChecksBan ==
    (last.route = "user" /\ last.sess = "banned") => last.status = 403

\* the routes behind requireAdmin
AdminRoutes == {"users", "ban", "unban", "deleteUser"}

\* C11: the handler of a route behind requireAdmin runs only for a request
\* whose session is bound to a user that is not banned and has role admin;
\* the gate answers 401 when no user is bound, else 403 "Access denied" when
\* the user is banned (whatever the role), else 403 "Admin access required"
\* when the role is not admin.
AdminGateOrder ==
    last.route \in AdminRoutes =>
        /\ last.ran <=> last.sess = "admin"
        /\ last.sess \in {"anon", "revoked"} =>
               last.status = 401 /\ last.message = "Authentication required"
        /\ last.sess = "banned" =>
               last.status = 403 /\ last.message = "Access denied"
        /\ last.sess = "user" =>
               last.status = 403 /\ last.message = "Admin access required"

\* a banned user who is not an admin is told of the ban, not of the role
AdminGateOrderWitness ==
    /\ last.route \in AdminRoutes
    /\ last.sess = "banned"
    /\ last.actor \in DOMAIN users
    /\ users[last.actor].role = "user"
    /\ last.message = "Access denied"

\* ------------------------------------------------------ user management
\* one administrator's browser at work: it can sign in as any user
NextAdmin ==
    \/ Tick
    \/ \E c \in {"c1"}, u \in LoginUsernames, p \in LoginPasswords : Login(c, u, p)
    \/ \E c \in {"c1"}, id \in 1..nextUserId : BanUser(c, id)
    \/ \E c \in {"c1"}, id \in 1..nextUserId : UnbanUser(c, id)
    \/ \E c \in {"c1"}, id \in 1..nextUserId : DeleteUser(c, id)

SpecAdmin == Init /\ [][NextAdmin]_vars

\* C5 as stated: an admin naming their own id on ban, unban or delete gets
\* the 400 and their row stays as it was.
SelfActionRejected ==
    last.kase = "self" =>
        /\ last.status = 400
        /\ last.target \in DOMAIN users
        /\ users[last.target] = last.before

\* C5 amended: ban and delete of the admin's own id get the 400 and leave
\* the row as it was; unban of the own id is not guarded: it gets the 200
\* and refreshes updatedAt, every other field of the row stays as it was.
SelfBanDeleteRejected ==
    last.kase = "self" =>
        /\ last.target \in DOMAIN users
        /\ last.route \in {"ban", "deleteUser"} =>
               /\ last.status = 400
               /\ users[last.target] = last.before
        /\ last.route = "unban" =>
               /\ last.status = 200
               /\ [users[last.target] EXCEPT !.updatedAt = last.before.updatedAt] = last.before
               /\ users[last.target].updatedAt >= last.before.updatedAt

SelfBanDeleteRejectedWitness ==
    /\ last.kase = "self"
    /\ last.route = "unban"
    /\ last.status = 200
    /\ users[last.target].updatedAt > last.before.updatedAt

\* --------------------------------------------------------- registration
InitReg == InitWith(1 :> SeedUser("root", "root@x.com", "admin"))

NextReg ==
    \/ \E c \in Clients, s \in 1..MaxSid : AdoptCookie(c, s)
    \/ \E c \in Clients, u \in {"root", "alice", "bob"}, p \in LoginPasswords : Login(c, u, p)
    \/ \E c \in Clients : Logout(c)
    \/ \E c \in Clients, body \in RegBodies : RegisterStart(c, body)
    \/ \E c \in Clients : RegisterEmail(c)
    \/ \E c \in Clients, salt \in Salts : RegisterInsert(c, salt)

SpecReg == InitReg /\ [][NextReg]_vars

\* C2: after a successful login or register the client's session id is one
\* that was never issued before the call (so none the client held), it is
\* bound to the authenticated user, and the id the request carried loads
\* no session.
SessionRegenerated ==
    (last.route \in {"login", "register"} /\ last.status \in {200, 201}) =>
        /\ last.newSid # NoSid
        /\ last.newSid \notin 1..last.issued
        /\ last.newSid # last.sid
        /\ last.newSid \in DOMAIN sessions
        /\ sessions[last.newSid] = last.target
        /\ last.sid \notin DOMAIN sessions

SessionRegeneratedWitness ==
    /\ last.route = "login"
    /\ last.status = 200
    /\ last.sid # NoSid
    /\ last.sid <= last.issued
    /\ last.newSid \in DOMAIN sessions

\* C4: the row a successful register creates has role "user" and
\* banned = false, whatever role and banned the body carried.
RegisterForcesRole ==
    (last.route = "register" /\ last.status = 201) =>
        /\ last.target \in DOMAIN users
        /\ users[last.target].role = "user"
        /\ users[last.target].banned = FALSE

RegisterForcesRoleWitness ==
    /\ last.route = "register"
    /\ last.status = 201
    /\ users[last.target].username = "alice"
    /\ users[last.target].email = "a@x.com"

\* C6: a register whose username is taken when it is looked up goes no
\* further than the lookup, is answered 400 "Username already exists", and
\* the step that answers it changes neither the users table nor the
\* session store.
DuplicateUsernameRejected ==
    [][/\ \A c \in Clients : pc'[c] # "idle" => ~pend'[c].nameTaken
       /\ last'.kase = "dupname" =>
              /\ last'.status = 400
              /\ last'.message = "Username already exists"
              /\ users' = users
              /\ nextUserId' = nextUserId
              /\ sessions' = sessions
              /\ nextSid' = nextSid]_vars

DuplicateUsernameRejectedWitness ==
    /\ last.kase = "dupname"
    /\ last.status = 400
    /\ DOMAIN sessions # {}

UsersUnique ==
    \A a, b \in DOMAIN users :
        a # b => /\ users[a].username # users[b].username
                 /\ users[a].email # users[b].email

\* two registrations raced for a name: both passed the lookups, one row
\* was inserted and the other insert was rejected
UsersUniqueWitness ==
    /\ last.route = "register"
    /\ last.kase = "race"
    /\ Cardinality({id \in DOMAIN users : users[id].username \in {"alice", "bob"}}) = 1

\* C7: a register whose insert the unique constraints reject, after both
\* lookups passed, is answered 400 with the duplicate message.
DuplicateRaceReported ==
    last.kase = "race" =>
        /\ last.status = 400
        /\ last.message \in {"Username already exists", "Email already exists"}

\* ------------------------------------------------------------------ stats
\* storage.getStats awaits four queries, one after the other and in no
\* transaction: count(*) of events, of registrations and of users, and
\* count(*) of the events with isActive = true
countRows(table) == Cardinality(DOMAIN table)

countActiveAll(table) == Cardinality(DOMAIN table)

countActive(table) == Cardinality({e \in DOMAIN table : table[e].isActive})

\* the n-th query of getStats
statsQuery(n) ==
    IF n = 1 THEN countRows(events)
    ELSE IF n = 2 THEN countRows(registrations)
    ELSE IF n = 3 THEN countRows(users)
    ELSE countActive(events)

\* the object getStats returns, of the counts of its queries and
\* this.exportCount
getStats(counts) ==
    [totalEvents |-> counts[1], totalRegistrations |-> counts[2], totalUsers |-> counts[3],
     activeQRs |-> counts[4], exports |-> exportCount]

\* GET /api/stats arrives and getStats sends its first query
GetStatsStart(c) ==
    /\ Idle(c)
    /\ sessions' = Deserialized(c)
    /\ pc' = [pc EXCEPT ![c] = "stats"]
    /\ pend' = [pend EXCEPT ![c].counts = <<statsQuery(1)>>, ![c].seen = <<events>>]
    /\ UNCHANGED <<users, nextUserId, nextSid, cookie, kicked, events, nextEventId,
                   qrSettings, nextQrId, now, last, registrations, nextRegId,
                   formSchemas, nextFormId, exportCount, exportsHandled>>
    /\ touch(c)
    /\ UNCHANGED builder

\* the next query of a getStats in flight is answered
GetStatsQuery(c) ==
    /\ pc[c] = "stats"
    /\ Len(pend[c].counts) < 4
    /\ pend' = [pend EXCEPT ![c].counts = Append(@, statsQuery(Len(@) + 1)),
                            ![c].seen = Append(@, events)]
    /\ UNCHANGED <<users, nextUserId, sessions, nextSid, cookie, kicked, events,
                   nextEventId, qrSettings, nextQrId, pc, now, last, registrations,
                   nextRegId, formSchemas, nextFormId, exportCount, exportsHandled, expire, builder>>

\* getStats returns and GET /api/stats answers; seen: the events table as
\* each of the four queries saw it
GetStatsReturn(c) ==
    /\ pc[c] = "stats"
    /\ Len(pend[c].counts) = 4
    /\ pc' = [pc EXCEPT ![c] = "idle"]
    /\ pend' = [pend EXCEPT ![c] = NoPend]
    /\ last' = [seen |-> pend[c].seen] @@
                   [Response("stats", c, 200, "", "") EXCEPT !.body = <<getStats(pend[c].counts)>>]
    /\ UNCHANGED <<users, nextUserId, sessions, nextSid, cookie, kicked, events,
                   nextEventId, qrSettings, nextQrId, now, registrations, nextRegId,
                   formSchemas, nextFormId, exportCount, exportsHandled>>
    /\ touch(c)
    /\ UNCHANGED builder

\* POST /api/export: storage.incrementExportCount()
Export(c) ==
    /\ Idle(c)
    /\ exportCount < MaxExports
    /\ sessions' = Deserialized(c)
    /\ exportCount' = exportCount + 1
    /\ exportsHandled' = exportsHandled + 1
    /\ last' = Response("export", c, 200, "Export count incremented", "")
    /\ UNCHANGED <<users, nextUserId, nextSid, cookie, kicked, events, nextEventId,
                   qrSettings, nextQrId, pc, pend, now, registrations, nextRegId,
                   formSchemas, nextFormId>>
    /\ touch(c)
    /\ UNCHANGED builder

RestartKeepsExports ==
    /\ exportsHandled' = 0
    /\ pc' = [c \in Clients |-> "idle"]
    /\ pend' = [c \in Clients |-> NoPend]
    /\ UNCHANGED <<users, nextUserId, sessions, nextSid, cookie, kicked, events,
                   nextEventId, qrSettings, nextQrId, now, last, registrations, nextRegId,
                   formSchemas, nextFormId, exportCount, expire, builder>>

\* the process is restarted: a new DatabaseStorage is constructed, with
\* exportCount = 0; the requests in flight are lost; the tables and the
\* session store are in the database and stay, the clients keep their cookies
Restart ==
    /\ exportCount' = 0
    /\ exportsHandled' = 0
    /\ pc' = [c \in Clients |-> "idle"]
    /\ pend' = [c \in Clients |-> NoPend]
    /\ UNCHANGED <<users, nextUserId, sessions, nextSid, cookie, kicked, events,
                   nextEventId, qrSettings, nextQrId, now, last, registrations, nextRegId,
                   formSchemas, nextFormId, expire, builder>>

\* exports are counted and read while events come and go, users sign in
\* and the process is restarted
NextStats ==
    \/ \E c \in {"c1"}, u \in {"alice"}, p \in {"secret1"} : Login(c, u, p)
    \/ \E c \in {"c1"}, body \in {b \in EventBodies : b.userId = 3} : CreateEvent(c, body)
    \/ \E c \in {"c1"}, id \in EventIds, patch \in {q \in EventPatches : "isActive" \in DOMAIN q} :
           UpdateEvent(c, id, patch)
    \/ \E c \in Clients : Export(c)
    \/ \E c \in Clients : GetStatsStart(c)
    \/ \E c \in Clients : GetStatsQuery(c)
    \/ \E c \in Clients : GetStatsReturn(c)
    \/ Restart

SpecStats == Init /\ [][NextStats]_vars

\* C20: the export counter is the number of POST /api/export requests the
\* running process has answered; GET /api/stats returns it as exports, next
\* to the counts of the tables; no step but a restart makes it smaller, an
\* export adds one; a restart sets it to zero and leaves the tables and the
\* session store as they were.
ExportsProcessLifetime ==
    /\ exportCount = exportsHandled
    /\ [][/\ exportCount' = exportsHandled'
          /\ \A c \in Clients : GetStatsReturn(c) =>
                 last'.body = <<[totalEvents |-> pend[c].counts[1],
                                 totalRegistrations |-> pend[c].counts[2],
                                 totalUsers |-> pend[c].counts[3],
                                 activeQRs |-> pend[c].counts[4],
                                 exports |-> exportsHandled]>>
          /\ (\E c \in Clients : Export(c)) => exportCount' = exportCount + 1
          /\ exportCount' < exportCount => Restart
          /\ Restart => /\ exportCount' = 0
                         /\ Tables' = Tables
                         /\ sessions' = sessions]_vars

\* the last request answered was an export, and the process was restarted
\* since: the counter is zero, the event and the session are still stored
ExportsProcessLifetimeWitness ==
    /\ last.route = "export"
    /\ exportCount = 0
    /\ Cardinality(DOMAIN events) = 1
    /\ DOMAIN sessions # {}

\* ---------------------------------------------------------- storage calls
\* The methods of DatabaseStorage called one at a time, each a single SQL
\* statement.  A call leaves in last: the method, the table, the id it
\* named, what it returned ("row", "undefined", "true", "false", a list, or
\* "threw" when the database rejected the statement), the values it was
\* given, the tables as they were before the call, the time of the call and
\* the number of calls made so far, which is kept within MaxCalls.
web == <<sessions, nextSid, cookie, kicked, pc, pend, exportCount, exportsHandled, expire, builder>>

Calls == IF "n" \in DOMAIN last THEN last.n ELSE 0

Called(op, kind, table, id, result, given) ==
    [route |-> op, kind |-> kind, table |-> table, target |-> id, result |-> result,
     given |-> given, before |-> Tables, at |-> now, n |-> Calls + 1]

WithUpdatedAtOmitted(update) == update

\* { ...update, updatedAt: new Date() }
WithUpdatedAt(update) == ("updatedAt" :> now) @@ update

\* the unique constraints on users.username and users.email, for an update
UniqueViolationBut(id, row) ==
    \E o \in DOMAIN users \ {id} :
        users[o].username = row.username \/ users[o].email = row.email

\* rows handed to storage.createUser
InsertUsers == {CreateUserValues(body, <<"a", "0">>) : body \in {b \in RegBodies : b.email = "b@x.com"}}

\* partial rows handed to storage.updateUser
UserUpdates == {[f \in {"banned"} |-> TRUE], [f \in {"email"} |-> "ops@x.com"]}

createUser(insertUser) ==
    /\ Calls < MaxCalls
    /\ nextUserId <= MaxUserId
    /\ IF UniqueViolation(insertUser)
       THEN /\ last' = Called("createUser", "create", "users", nextUserId, "threw", insertUser)
            /\ UNCHANGED <<users, nextUserId>>
       ELSE /\ users' = users @@ (nextUserId :> insertUser)
            /\ nextUserId' = nextUserId + 1
            /\ last' = Called("createUser", "create", "users", nextUserId, "row", insertUser)
    /\ UNCHANGED <<events, nextEventId, qrSettings, nextQrId, formSchemas, nextFormId,
                   registrations, nextRegId, now, web>>

updateUser(id, userUpdate) ==
    /\ Calls < MaxCalls
    /\ IF id \notin DOMAIN users
       THEN /\ last' = Called("updateUser", "update", "users", id, "undefined", userUpdate)
            /\ UNCHANGED users
       ELSE IF UniqueViolationBut(id, SetValues(users[id], WithUpdatedAt(userUpdate)))
       THEN /\ last' = Called("updateUser", "update", "users", id, "threw", userUpdate)
            /\ UNCHANGED users
       ELSE /\ users' = [users EXCEPT ![id] = SetValues(users[id], WithUpdatedAt(userUpdate))]
            /\ last' = Called("updateUser", "update", "users", id, "row", userUpdate)
    /\ UNCHANGED <<nextUserId, events, nextEventId, qrSettings, nextQrId, formSchemas,
                   nextFormId, registrations, nextRegId, now, web>>

deleteUser(id) ==
    /\ Calls < MaxCalls
    /\ IF id \notin DOMAIN users
       THEN /\ last' = Called("deleteUser", "delete", "users", id, "false", << >>)
            /\ UNCHANGED users
       ELSE IF UserReferenced(id)
       THEN /\ last' = Called("deleteUser", "delete", "users", id, "threw", << >>)
            /\ UNCHANGED users
       ELSE /\ users' = Remove(users, id)
            /\ last' = Called("deleteUser", "delete", "users", id, "true", << >>)
    /\ UNCHANGED <<nextUserId, events, nextEventId, qrSettings, nextQrId, formSchemas,
                   nextFormId, registrations, nextRegId, now, web>>

\* rows handed to storage.createEvent: of two owners, one carrying urls of
\* the caller's choosing, one of a user that does not exist
InsertEvents ==
    {[userId |-> 1, name |-> "Spring Fair"],
     [userId |-> 3, name |-> "Spring Fair", registrationUrl |-> <<"/elsewhere/", 9>>,
      qrCodeUrl |-> <<"/qr/", 9>>],
     [userId |-> MaxUserId, name |-> "Spring Fair"]}

\* partial rows handed to storage.updateEvent
EventUpdates ==
    {[f \in {"isActive"} |-> FALSE], [f \in {"userId"} |-> 2], [f \in {"userId"} |-> MaxUserId]}

createEvent(insertEvent) ==
    /\ Calls < MaxCalls
    /\ nextEventId <= MaxRows
    /\ IF insertEvent.userId \notin DOMAIN users
       THEN /\ last' = Called("createEvent", "create", "events", nextEventId, "threw",
                              insertEvent)
            /\ UNCHANGED <<events, nextEventId>>
       ELSE /\ events' = events @@ (nextEventId :> CreateEventValues(insertEvent))
            /\ nextEventId' = nextEventId + 1
            /\ last' = Called("createEvent", "create", "events", nextEventId, "row",
                              insertEvent)
    /\ UNCHANGED <<users, nextUserId, qrSettings, nextQrId, formSchemas, nextFormId,
                   registrations, nextRegId, now, web>>

updateEvent(id, eventUpdate) ==
    /\ Calls < MaxCalls
    /\ IF id \notin DOMAIN events
       THEN /\ last' = Called("updateEvent", "update", "events", id, "undefined", eventUpdate)
            /\ UNCHANGED events
       ELSE IF SetValues(events[id], WithUpdatedAt(eventUpdate)).userId \notin DOMAIN users
       THEN /\ last' = Called("updateEvent", "update", "events", id, "threw", eventUpdate)
            /\ UNCHANGED events
       ELSE /\ events' = [events EXCEPT ![id] = SetValues(events[id],
                                                          WithUpdatedAt(eventUpdate))]
            /\ last' = Called("updateEvent", "update", "events", id, "row", eventUpdate)
    /\ UNCHANGED <<users, nextUserId, nextEventId, qrSettings, nextQrId, formSchemas,
                   nextFormId, registrations, nextRegId, now, web>>

deleteEvent(id) ==
    /\ Calls < MaxCalls
    /\ IF id \notin DOMAIN events
       THEN /\ last' = Called("deleteEvent", "delete", "events", id, "false", << >>)
            /\ UNCHANGED events
       ELSE IF EventReferenced(id)
       THEN /\ last' = Called("deleteEvent", "delete", "events", id, "threw", << >>)
            /\ UNCHANGED events
       ELSE /\ events' = Remove(events, id)
            /\ last' = Called("deleteEvent", "delete", "events", id, "true", << >>)
    /\ UNCHANGED <<users, nextUserId, nextEventId, qrSettings, nextQrId, formSchemas,
                   nextFormId, registrations, nextRegId, now, web>>

\* partial rows handed to storage.updateQrSettings: PATCH /api/qr-settings/:id
\* passes req.body as it is, so it can name updatedAt
QrSettingsUpdates == {[f \in {"qrSize"} |-> 300], [f \in {"updatedAt"} |-> 0]}

createQrSettings(insertSettings) ==
    /\ Calls < MaxCalls
    /\ nextQrId <= MaxRows
    /\ IF insertSettings.eventId \notin DOMAIN events
       THEN /\ last' = Called("createQrSettings", "create", "qrSettings", nextQrId, "threw",
                              insertSettings)
            /\ UNCHANGED <<qrSettings, nextQrId>>
       ELSE /\ qrSettings' = qrSettings @@
                   (nextQrId :> SetValues(QrSettingsDefaults, insertSettings))
            /\ nextQrId' = nextQrId + 1
            /\ last' = Called("createQrSettings", "create", "qrSettings", nextQrId, "row",
                              insertSettings)
    /\ UNCHANGED <<users, nextUserId, events, nextEventId, formSchemas, nextFormId,
                   registrations, nextRegId, now, web>>

updateQrSettings(id, settingsUpdate) ==
    /\ Calls < MaxCalls
    /\ IF id \notin DOMAIN qrSettings
       THEN /\ last' = Called("updateQrSettings", "update", "qrSettings", id, "undefined",
                              settingsUpdate)
            /\ UNCHANGED qrSettings
       ELSE /\ qrSettings' = [qrSettings EXCEPT ![id] =
                                  SetValues(qrSettings[id], WithUpdatedAt(settingsUpdate))]
            /\ last' = Called("updateQrSettings", "update", "qrSettings", id, "row",
                              settingsUpdate)
    /\ UNCHANGED <<users, nextUserId, events, nextEventId, nextQrId, formSchemas,
                   nextFormId, registrations, nextRegId, now, web>>

deleteQrSettings(id) ==
    /\ Calls < MaxCalls
    /\ IF id \notin DOMAIN qrSettings
       THEN /\ last' = Called("deleteQrSettings", "delete", "qrSettings", id, "false", << >>)
            /\ UNCHANGED qrSettings
       ELSE /\ qrSettings' = Remove(qrSettings, id)
            /\ last' = Called("deleteQrSettings", "delete", "qrSettings", id, "true", << >>)
    /\ UNCHANGED <<users, nextUserId, events, nextEventId, nextQrId, formSchemas,
                   nextFormId, registrations, nextRegId, now, web>>

\* the column defaults of the form_schemas table
FormSchemaDefaults == [eventId |-> 0, schema |-> "[]", createdAt |-> now, updatedAt |-> now]

\* partial rows handed to storage.updateFormSchema
FormSchemaUpdates == {[f \in {"schema"} |-> "[name]"]}

createFormSchema(insertSchema) ==
    /\ Calls < MaxCalls
    /\ nextFormId <= MaxRows
    /\ IF insertSchema.eventId \notin DOMAIN events
       THEN /\ last' = Called("createFormSchema", "create", "formSchemas", nextFormId,
                              "threw", insertSchema)
            /\ UNCHANGED <<formSchemas, nextFormId>>
       ELSE /\ formSchemas' = formSchemas @@
                   (nextFormId :> SetValues(FormSchemaDefaults, insertSchema))
            /\ nextFormId' = nextFormId + 1
            /\ last' = Called("createFormSchema", "create", "formSchemas", nextFormId,
                              "row", insertSchema)
    /\ UNCHANGED <<users, nextUserId, events, nextEventId, qrSettings, nextQrId,
                   registrations, nextRegId, now, web>>

updateFormSchema(id, schemaUpdate) ==
    /\ Calls < MaxCalls
    /\ IF id \notin DOMAIN formSchemas
       THEN /\ last' = Called("updateFormSchema", "update", "formSchemas", id, "undefined",
                              schemaUpdate)
            /\ UNCHANGED formSchemas
       ELSE /\ formSchemas' = [formSchemas EXCEPT ![id] =
                                   SetValues(formSchemas[id], WithUpdatedAt(schemaUpdate))]
            /\ last' = Called("updateFormSchema", "update", "formSchemas", id, "row",
                              schemaUpdate)
    /\ UNCHANGED <<users, nextUserId, events, nextEventId, qrSettings, nextQrId,
                   nextFormId, registrations, nextRegId, now, web>>

deleteFormSchema(id) ==
    /\ Calls < MaxCalls
    /\ IF id \notin DOMAIN formSchemas
       THEN /\ last' = Called("deleteFormSchema", "delete", "formSchemas", id, "false", << >>)
            /\ UNCHANGED formSchemas
       ELSE /\ formSchemas' = Remove(formSchemas, id)
            /\ last' = Called("deleteFormSchema", "delete", "formSchemas", id, "true", << >>)
    /\ UNCHANGED <<users, nextUserId, events, nextEventId, qrSettings, nextQrId,
                   nextFormId, registrations, nextRegId, now, web>>

\* the column defaults of the registrations table, which has no updatedAt
RegistrationDefaults ==
    [eventId |-> 0, name |-> Missing, phone |-> Missing, registeredAt |-> now]

\* partial rows handed to storage.updateRegistration
RegistrationUpdates == {[f \in {"phone"} |-> "556"], [f \in {"eventId"} |-> MaxRows]}

createRegistration(insertRegistration) ==
    /\ Calls < MaxCalls
    /\ nextRegId <= MaxRows
    /\ IF insertRegistration.eventId \notin DOMAIN events
       THEN /\ last' = Called("createRegistration", "create", "registrations", nextRegId,
                              "threw", insertRegistration)
            /\ UNCHANGED <<registrations, nextRegId>>
       ELSE /\ registrations' = registrations @@
                   (nextRegId :> SetValues(RegistrationDefaults, insertRegistration))
            /\ nextRegId' = nextRegId + 1
            /\ last' = Called("createRegistration", "create", "registrations", nextRegId,
                              "row", insertRegistration)
    /\ UNCHANGED <<users, nextUserId, events, nextEventId, qrSettings, nextQrId,
                   formSchemas, nextFormId, now, web>>

\* .set(registrationUpdate): no updatedAt is added
updateRegistration(id, registrationUpdate) ==
    /\ Calls < MaxCalls
    /\ IF id \notin DOMAIN registrations
       THEN /\ last' = Called("updateRegistration", "update", "registrations", id,
                              "undefined", registrationUpdate)
            /\ UNCHANGED registrations
       ELSE IF SetValues(registrations[id], registrationUpdate).eventId \notin DOMAIN events
       THEN /\ last' = Called("updateRegistration", "update", "registrations", id, "threw",
                              registrationUpdate)
            /\ UNCHANGED registrations
       ELSE /\ registrations' = [registrations EXCEPT ![id] =
                                     SetValues(registrations[id], registrationUpdate)]
            /\ last' = Called("updateRegistration", "update", "registrations", id, "row",
                              registrationUpdate)
    /\ UNCHANGED <<users, nextUserId, events, nextEventId, qrSettings, nextQrId,
                   formSchemas, nextFormId, nextRegId, now, web>>

deleteRegistrationAlwaysTrue(id) ==
    /\ Calls < MaxCalls
    /\ registrations' = Remove(registrations, id)
    /\ last' = Called("deleteRegistration", "delete", "registrations", id, "true", << >>)
    /\ UNCHANGED <<users, nextUserId, events, nextEventId, qrSettings, nextQrId,
                   formSchemas, nextFormId, nextRegId, now, web>>

deleteRegistration(id) ==
    /\ Calls < MaxCalls
    /\ IF id \notin DOMAIN registrations
       THEN /\ last' = Called("deleteRegistration", "delete", "registrations", id, "false",
                              << >>)
            /\ UNCHANGED registrations
       ELSE /\ registrations' = Remove(registrations, id)
            /\ last' = Called("deleteRegistration", "delete", "registrations", id, "true",
                              << >>)
    /\ UNCHANGED <<users, nextUserId, events, nextEventId, qrSettings, nextQrId,
                   formSchemas, nextFormId, nextRegId, now, web>>

\* DELETE /api/registrations/:id: storage.deleteRegistration, then 404 when
\* it returned false, 204 when it returned true
DeleteRegistration(c, id) ==
    /\ Idle(c)
    /\ Calls < MaxCalls
    /\ sessions' = Deserialized(c)
    /\ IF id \notin DOMAIN registrations
       THEN /\ last' = [status |-> 404, message |-> "Registration not found"]
                           @@ Called("DELETE /api/registrations/:id", "delete",
                                     "registrations", id, "false", << >>)
            /\ UNCHANGED registrations
       ELSE /\ registrations' = Remove(registrations, id)
            /\ last' = [status |-> 204, message |-> ""]
                           @@ Called("DELETE /api/registrations/:id", "delete",
                                     "registrations", id, "true", << >>)
    /\ UNCHANGED <<users, nextUserId, events, nextEventId, qrSettings, nextQrId,
                   formSchemas, nextFormId, nextRegId, now, nextSid, cookie, kicked,
                   pc, pend, exportCount, exportsHandled>>
    /\ touch(c)
    /\ UNCHANGED builder

\* rows are inserted and deleted, by calls of the storage methods and by
\* DELETE /api/registrations/:id
NextDeletes ==
    \/ \E e \in {i \in InsertEvents : i.userId = 1} : createEvent(e)
    \/ \E e \in {1} : createQrSettings([eventId |-> e])
    \/ \E e \in {1} : createFormSchema([eventId |-> e])
    \/ \E e \in {1} : createRegistration([eventId |-> e, name |-> "Ann", phone |-> "555"])
    \/ \E id \in 1..nextUserId : deleteUser(id)
    \/ \E id \in 1..nextEventId : deleteEvent(id)
    \/ \E id \in 1..nextQrId : deleteQrSettings(id)
    \/ \E id \in 1..nextFormId : deleteFormSchema(id)
    \/ \E id \in 1..nextRegId : deleteRegistration(id)
    \/ \E c \in {"c1"}, id \in 1..nextRegId : DeleteRegistration(c, id)

SpecDeletes == Init /\ [][NextDeletes]_vars

\* C17: a delete returns true exactly when a row of the id was stored and
\* the call removed it, and then the tables are as before but for that row;
\* on an id that is not stored it returns false, does not throw and leaves
\* the tables as they were; DELETE /api/registrations/:id answers 404 for
\* false and 204 for true; a delete the database rejects changes nothing.
DeleteContract ==
    (Calls > 0 /\ last.kind = "delete") =>
        /\ last.result \in {"true", "false", "threw"}
        /\ last.result = "true" <=>
               /\ last.target \in DOMAIN last.before[last.table]
               /\ last.target \notin DOMAIN Tables[last.table]
        /\ last.result = "true" =>
               Tables = [last.before EXCEPT ![last.table] = Remove(@, last.target)]
        /\ last.result = "false" <=> last.target \notin DOMAIN last.before[last.table]
        /\ last.result # "true" => Tables = last.before
        /\ "status" \in DOMAIN last =>
               /\ last.result = "false" <=> last.status = 404
               /\ last.result = "true" <=> last.status = 204

\* a registration that was stored and deleted is deleted once more
DeleteContractWitness ==
    /\ Calls > 0
    /\ last.kind = "delete"
    /\ last.table = "registrations"
    /\ last.target < nextRegId
    /\ last.result = "false"
    /\ "status" \in DOMAIN last

\* events are created, by calls of storage.createEvent and by POST
\* /api/events, and deleted, as time passes
NextCreates ==
    \/ Tick
    \/ \E e \in InsertEvents : createEvent(e)
    \/ \E c \in {"c1"}, body \in EventBodies : CreateEvent(c, body)
    \/ \E id \in 1..nextEventId : deleteEvent(id)

SpecCreates == Init /\ [][NextCreates]_vars

\* C18: the registrationUrl of every stored event is "/register/" followed
\* by the userId the event was created with, so two events created with the
\* same userId have the same registrationUrl, and its qrCodeUrl is null: a
\* registrationUrl or qrCodeUrl handed in by the caller is not stored,
\* neither by storage.createEvent nor through POST /api/events.
RegistrationUrlDerived ==
    /\ \A e \in DOMAIN events :
           /\ events[e].registrationUrl = <<"/register/", events[e].userId>>
           /\ events[e].qrCodeUrl = NoUrl
    /\ (Calls > 0 /\ last.route = "createEvent" /\ last.result = "row") =>
           /\ last.target \in DOMAIN events
           /\ events[last.target].userId = last.given.userId
           /\ events[last.target].createdAt = last.at

\* two events of one owner are stored, the later one created with urls of
\* the caller's choosing
RegistrationUrlDerivedWitness ==
    /\ Calls > 0
    /\ last.route = "createEvent"
    /\ last.result = "row"
    /\ "registrationUrl" \in DOMAIN last.given
    /\ \E e \in DOMAIN events :
           e # last.target /\ events[e].userId = events[last.target].userId

\* ------------------------------------------------------------------ lists
getAllEvents == OrderByDesc(events, DOMAIN events, "createdAt")

\* .where(eq(events.userId, userId)).orderBy(desc(events.createdAt))
getEventsByUser(userId) ==
    OrderByDesc(events, {e \in DOMAIN events : events[e].userId = userId}, "createdAt")

\* .where(eq(registrations.eventId, eventId))
\* .orderBy(desc(registrations.registeredAt))
getRegistrationsByEvent(eventId) ==
    OrderByDesc(registrations,
                {r \in DOMAIN registrations : registrations[r].eventId = eventId},
                "registeredAt")

getAllRegistrations == OrderByDesc(registrations, DOMAIN registrations, "registeredAt")

\* a call of a list method: it returns one of the lists the database may
\* answer, and changes nothing
Listed(op, table, filter, lists) ==
    /\ Calls < MaxCalls
    /\ \E list \in lists : last' = Called(op, "list", table, filter, list, << >>)
    /\ UNCHANGED <<users, nextUserId, events, nextEventId, qrSettings, nextQrId,
                   formSchemas, nextFormId, registrations, nextRegId, now, web>>

\* rows are inserted as time passes, and listed
NextLists ==
    \/ Tick
    \/ \E u \in InsertUsers : createUser(u)
    \/ \E e \in InsertEvents : createEvent(e)
    \/ \E e \in 1..MaxRows :
           createRegistration([eventId |-> e, name |-> "Ann", phone |-> "555"])
    \/ Listed("getAllUsers", "users", 0, getAllUsers)
    \/ Listed("getAllEvents", "events", 0, getAllEvents)
    \/ \E u \in {1, 3} : Listed("getEventsByUser", "events", u, getEventsByUser(u))
    \/ Listed("getAllRegistrations", "registrations", 0, getAllRegistrations)
    \/ \E e \in 1..MaxRows :
           Listed("getRegistrationsByEvent", "registrations", e, getRegistrationsByEvent(e))

SpecLists == Init /\ [][NextLists]_vars

\* the ids a list call has to return
Matching ==
    CASE last.route = "getEventsByUser" ->
             {e \in DOMAIN events : events[e].userId = last.target}
      [] last.route = "getRegistrationsByEvent" ->
             {r \in DOMAIN registrations : registrations[r].eventId = last.target}
      [] OTHER -> DOMAIN Tables[last.table]

\* the creation timestamp of a row of the table listed
CreationTime(id) ==
    IF last.table = "registrations" THEN registrations[id].registeredAt
    ELSE Tables[last.table][id].createdAt

\* C19: a list call returns each matching stored row once and no other
\* row, and no row of the list is newer than a row before it.
ListsNewestFirst ==
    (Calls > 0 /\ last.kind = "list") =>
        /\ Len(last.result) = Cardinality(Matching)
        /\ {last.result[i] : i \in DOMAIN last.result} = Matching
        /\ \A i, j \in DOMAIN last.result :
               i < j => CreationTime(last.result[i]) >= CreationTime(last.result[j])

\* the two events of one owner, created at different times, are listed the
\* later one first
ListsNewestFirstWitness ==
    /\ Calls > 0
    /\ last.route = "getEventsByUser"
    /\ Len(last.result) = 2
    /\ CreationTime(last.result[1]) > CreationTime(last.result[2])

\* rows are inserted and updated as time passes
NextUpdates ==
    \/ Tick
    \/ \E id \in 1..nextUserId, u \in UserUpdates : updateUser(id, u)
    \/ \E e \in {i \in InsertEvents : i.userId = 1} : createEvent(e)
    \/ \E id \in 1..nextEventId, e \in EventUpdates : updateEvent(id, e)
    \/ \E e \in {1} : createQrSettings([eventId |-> e])
    \/ \E id \in 1..nextQrId, q \in QrSettingsUpdates : updateQrSettings(id, q)
    \/ \E e \in {1} : createFormSchema([eventId |-> e])
    \/ \E id \in 1..nextFormId, f \in FormSchemaUpdates : updateFormSchema(id, f)
    \/ \E e \in {1} : createRegistration([eventId |-> e, name |-> "Ann", phone |-> "555"])
    \/ \E id \in 1..nextRegId, r \in RegistrationUpdates : updateRegistration(id, r)

SpecUpdates == Init /\ [][NextUpdates]_vars

\* the last step was a call of an update method that the database accepted
UpdateReturned == Calls > 0 /\ last.kind = "update" /\ last.result # "threw"

\* a row after an update that writes the fields given and the time of the
\* call into updatedAt
Refreshed(row, given, at) ==
    [f \in DOMAIN row \cup {"updatedAt"} |->
        IF f = "updatedAt" THEN at ELSE IF f \in DOMAIN given THEN given[f] ELSE row[f]]

\* a row after an update that writes the fields given and nothing else
Patched(row, given) ==
    [f \in DOMAIN row |-> IF f \in DOMAIN given THEN given[f] ELSE row[f]]

NextAccounts ==
    \/ Tick
    \/ \E c \in {"c1"}, u \in {"root"}, p \in {"secret1"} : Login(c, u, p)
    \/ \E c \in {"c2"}, body \in RegBodies : RegisterStart(c, body)
    \/ \E c \in {"c2"} : RegisterEmail(c)
    \/ \E c \in {"c2"}, salt \in {<<"a", "0">>} : RegisterInsert(c, salt)
    \/ \E c \in Clients : CurrentUser(c)
    \/ \E c \in {"c1"} : ListUsers(c)
    \/ \E c \in {"c1"}, id \in 1..nextUserId : BanUser(c, id)
    \/ \E c \in {"c1"}, id \in 1..nextUserId : UnbanUser(c, id)
    \/ \E c \in {"c1"}, id \in 1..nextUserId : DeleteUser(c, id)

SpecAccounts == InitReg /\ [][NextAccounts]_vars

\* the fields of the sanitized user view
SanitizedFields == {"id", "username", "email", "role", "banned", "createdAt"}

\* C12: every user object in a response of register, login, GET /api/user
\* or GET /api/users has exactly the fields id, username, email, role,
\* banned, createdAt (so no password hash); register, login and GET
\* /api/user return one such object when they succeed, GET /api/users one
\* per stored user.
ResponsesSanitized ==
    last.route \in {"register", "login", "user", "users"} =>
        /\ \A i \in DOMAIN last.body : DOMAIN last.body[i] = SanitizedFields
        /\ (last.route # "users" /\ last.status \in {200, 201}) => Len(last.body) = 1
        /\ (last.route = "users" /\ last.status = 200) =>
               {last.body[i].id : i \in DOMAIN last.body} = DOMAIN users

ResponsesSanitizedWitness ==
    /\ last.route = "users"
    /\ last.status = 200
    /\ Len(last.body) >= 2
    /\ \E id \in DOMAIN users : split(users[id].password, ".")[2] = <<"a", "0">>

\* C13: no step changes the role of a stored user, and every row a step
\* adds to the users table has role "user": a registered user has role
\* "user" for as long as the row exists.
RoleNeverChanges ==
    [][/\ \A id \in DOMAIN users \cap DOMAIN users' : users'[id].role = users[id].role
       /\ \A id \in DOMAIN users' \ DOMAIN users : users'[id].role = "user"]_vars

\* a registered user that was banned later on
RoleNeverChangesWitness ==
    \E id \in DOMAIN users :
        /\ split(users[id].password, ".")[2] = <<"a", "0">>
        /\ users[id].banned
        /\ users[id].updatedAt > users[id].createdAt
        /\ users[id].role = "user"

\* ---------------------------------------------------------------- events
NextEvents ==
    \/ \E c \in Clients, u \in {"root", "alice"}, p \in {"secret1"} : Login(c, u, p)
    \/ \E c \in Clients, body \in EventBodies : CreateEvent(c, body)
    \/ \E c \in Clients, id \in EventIds, patch \in EventPatches : UpdateEvent(c, id, patch)
    \/ \E c \in Clients, id \in EventIds : DeleteEvent(c, id)
    \/ \E c \in Clients, e \in EventIds : CreateQrSettings(c, e)

SpecEvents == Init /\ [][NextEvents]_vars

\* C9: an event is updated or deleted only by a request authenticated as the
\* event's owner or as an admin.
EventChangedByOwnerOrAdmin ==
    (last.route \in {"updateEvent", "deleteEvent"} /\ last.status \in {200, 204}) =>
        \/ last.actor # NoUser /\ last.actor = last.target
        \/ last.sess = "admin"

\* C10: an event is created only by a request that carries a valid session.
EventCreatedByAuthenticated ==
    (last.route = "createEvent" /\ last.status = 201) => last.actor # NoUser

\* ------------------------------------------------------- session expiry
\* twelve more hours pass
Elapse ==
    /\ now < MaxClock
    /\ now' = now + 1
    /\ UNCHANGED <<users, nextUserId, sessions, nextSid, cookie, kicked, events,
                   nextEventId, qrSettings, nextQrId, pc, pend, last, registrations,
                   nextRegId, formSchemas, nextFormId, exportCount, exportsHandled, expire, builder>>

\* the store's periodic sweep: DELETE FROM session WHERE expire < now
pruneSessions ==
    /\ \E s \in DOMAIN sessions : expire[s] < now
    /\ sessions' = [s \in {t \in DOMAIN sessions : expire[t] >= now} |-> sessions[s]]
    /\ expire' = [s \in DOMAIN sessions' |-> expire[s]]
    /\ UNCHANGED <<users, nextUserId, nextSid, cookie, kicked, events, nextEventId,
                   qrSettings, nextQrId, pc, pend, now, last, registrations, nextRegId,
                   formSchemas, nextFormId, exportCount, exportsHandled, builder>>

\* users sign in, come back with their cookie and sign out as time passes
NextSessions ==
    \/ Elapse
    \/ pruneSessions
    \/ \E c \in Clients, u \in {"alice"}, p \in {"secret1"} : Login(c, u, p)
    \/ \E c \in Clients : CurrentUser(c)
    \/ \E c \in Clients : Logout(c)

SpecSessions == Init /\ [][NextSessions]_vars

\* C21: a session is valid for SessionTtl from the time it was issued: its
\* row gets the expiry now + SessionTtl when it is stored, no later step
\* moves the expiry of a stored session, and GET /api/user answers 200 only
\* on a session whose expiry has not passed
SessionTtlFromIssuance ==
    [][/\ \A s \in DOMAIN sessions' \ DOMAIN sessions : expire'[s] = now + SessionTtl
       /\ \A s \in DOMAIN sessions \cap DOMAIN sessions' : expire'[s] = expire[s]
       /\ \A c \in Clients :
              CurrentUser(c) /\ last'.status = 200 => now <= expire[cookie[c]]]_vars

\* ------------------------------------------------- references to events
\* events and registrations are inserted, registrations are moved to
\* another event, events and registrations are deleted
NextRefs ==
    \/ \E e \in {i \in InsertEvents : i.userId = 1} : createEvent(e)
    \/ \E e \in 1..MaxRows : createRegistration([eventId |-> e, name |-> "Ann", phone |-> "555"])
    \/ \E id \in 1..nextRegId, e \in 1..MaxRows :
           updateRegistration(id, [f \in {"eventId"} |-> e])
    \/ \E id \in 1..nextEventId : deleteEvent(id)
    \/ \E id \in 1..nextRegId : deleteRegistration(id)

SpecRefs == Init /\ [][NextRefs]_vars

\* C22: the eventId of every registration row is the id of an event row
RegistrationsReferenceEvents ==
    \A r \in DOMAIN registrations : registrations[r].eventId \in DOMAIN events

\* the event of a stored registration was to be deleted, and the database
\* refused
RegistrationsReferenceEventsWitness ==
    /\ last.route = "deleteEvent"
    /\ last.result = "threw"
    /\ \E r \in DOMAIN registrations : registrations[r].eventId = last.target
\* ----------------------------------------------------- credential hasher
\* the salts hashPassword can draw: every string of two of these digits
HasherSalts == {<<a, b>> : a \in {"0", "5", "a", "f"}, b \in {"0", "5", "a", "f"}}

\* stored credentials that hashPassword did not write: without a ".", with
\* a key of one byte, with a key that is no hexadecimal string, with a
\* key of three bytes, and the empty string
MalformedCredentials ==
    {<<"1", "7", "a", "c", "5", "f">>,
     <<"1", "7", ".", "5", "f">>,
     <<"z", "z", "z", "z", ".", "5", "f">>,
     <<"1", "7", "a", "c", "0", "0", ".", "5", "f">>,
     << >>}

hasherVars == <<users, nextUserId, sessions, nextSid, cookie, kicked, events, nextEventId,
                qrSettings, nextQrId, pc, pend, now, registrations, nextRegId,
                formSchemas, nextFormId, exportCount, exportsHandled, expire, builder>>

\* hashPassword is called and its credential stored
Hash(password, salt) ==
    /\ last' = [route |-> "hashPassword", password |-> password, salt |-> salt,
                stored |-> hashPassword(password, salt), supplied |-> "", result |-> ""]
    /\ UNCHANGED hasherVars

\* a credential that hashPassword did not write is found stored
FindStored(stored) ==
    /\ last' = [route |-> "stored", password |-> "", salt |-> << >>,
                stored |-> stored, supplied |-> "", result |-> ""]
    /\ UNCHANGED hasherVars

\* comparePasswords is called with the stored credential
Compare(supplied) ==
    /\ last.route \in {"hashPassword", "stored", "comparePasswords"}
    /\ last' = [last EXCEPT !.route = "comparePasswords", !.supplied = supplied,
                            !.result = comparePasswords(supplied, last.stored)]
    /\ UNCHANGED hasherVars

NextHasher ==
    \/ \E password \in DOMAIN PasswordBytes, salt \in HasherSalts : Hash(password, salt)
    \/ \E stored \in MalformedCredentials : FindStored(stored)
    \/ \E supplied \in DOMAIN PasswordBytes : Compare(supplied)

SpecHasher == Init /\ [][NextHasher]_vars

\* C23: a password verifies against the credential hashPassword made of it,
\* whatever the salt, and no other password does
HashVerifies ==
    last.route = "comparePasswords" /\ last.password # ""
        => last.result = (IF last.supplied = last.password THEN "true" ELSE "false")

\* a password was verified against its own credential, made with a salt
\* that is not the one of the seeded users
HashVerifiesWitness ==
    /\ last.route = "comparePasswords"
    /\ last.password = "wrong99" /\ last.supplied = "wrong99"
    /\ last.salt = <<"f", "0">>
    /\ last.result = "true"

\* C24: comparePasswords returns false, and does not throw, for a password
\* that is not the one of the credential and for a malformed credential
CompareNeverThrows ==
    last.route = "comparePasswords" /\ last.supplied # last.password
        => last.result = "false"
\* ---------------------------------------------------------- deleted users
\* users sign in, an administrator deletes users, and the browsers of the
\* deleted users keep sending their cookies
NextDeleted ==
    \/ \E c \in Clients, u \in {"root", "ops", "alice"}, p \in {"secret1"} : Login(c, u, p)
    \/ \E c \in Clients, id \in 1..nextUserId : DeleteUser(c, id)
    \/ \E c \in Clients : CurrentUser(c)
    \/ \E c \in Clients : ListUsers(c)
    \/ \E c \in Clients, e \in EventIds : GetQrSettings(c, e)

SpecDeleted == Init /\ [][NextDeleted]_vars

\* the request of client c carries a session that is bound to a user whose
\* row has been deleted
BoundToDeleted(c) == Loaded(c) /\ sessions[cookie[c]] \notin DOMAIN users

NextSnapshot ==
    \/ \E c \in {"c1"}, body \in {b \in EventBodies : b.userId = 1 /\ b.name # Missing} :
           CreateEvent(c, body)
    \/ \E c \in {"c1"}, id \in EventIds, patch \in {q \in EventPatches : "isActive" \in DOMAIN q} :
           UpdateEvent(c, id, patch)
    \/ \E c \in {"c1"}, id \in EventIds : DeleteEvent(c, id)
    \/ \E c \in Clients : GetStatsStart(c)
    \/ \E c \in Clients : GetStatsQuery(c)
    \/ \E c \in Clients : GetStatsReturn(c)

SpecSnapshot == Init /\ [][NextSnapshot]_vars

\* C26, as claimed: a result of getStats never counts more active events
\* than events; a result that does is the count of no state of the store
StatsConsistentSnapshot ==
    last.route = "stats" => last.body[1].activeQRs <= last.body[1].totalEvents

\* C26, amended: totalEvents is the number of events when the first query
\* ran, activeQRs the number of active events when the fourth ran; when
\* the events table was the same at both, they are counts of that one
\* state and activeQRs is at most totalEvents
StatsCountsAtQueryTime ==
    last.route = "stats" =>
        /\ last.body[1].totalEvents = Cardinality(DOMAIN last.seen[1])
        /\ last.body[1].activeQRs =
               Cardinality({e \in DOMAIN last.seen[4] : last.seen[4][e].isActive})
        /\ last.seen[1] = last.seen[4] =>
               last.body[1].activeQRs <= last.body[1].totalEvents

\* stats were answered after the one event was deactivated between the
\* first and the fourth query
StatsCountsAtQueryTimeWitness ==
    /\ last.route = "stats"
    /\ last.seen[1] # last.seen[4]
    /\ last.body[1].totalEvents = 1
    /\ last.body[1].activeQRs = 0
    /\ DOMAIN last.seen[4] # {}
\* --------------------------------------------- deletes of referenced rows
\* events are created, rows that name the first one are stored, and the
\* events and the users are deleted through the API
NextFk ==
    \/ \E c \in {"c1"}, u \in {"root"}, p \in {"secret1"} : Login(c, u, p)
    \/ \E c \in {"c2"}, body \in {b \in EventBodies : b.userId = 3 /\ b.name # Missing} :
           CreateEvent(c, body)
    \/ \E e \in {1} : createQrSettings([eventId |-> e])
    \/ \E e \in {1} : createFormSchema([eventId |-> e])
    \/ \E e \in {1} : createRegistration([eventId |-> e, name |-> "Ann", phone |-> "555"])
    \/ \E c \in {"c2"}, id \in EventIds : DeleteEvent(c, id)
    \/ \E c \in {"c1"}, id \in 1..nextUserId : DeleteUser(c, id)

SpecFk == Init /\ [][NextFk]_vars

\* C27: DELETE /api/events/:id of an event that a registration, a QR
\* settings row or a form schema names is answered 500 and removes no row
\* of any table; so is DELETE /api/users/:id, sent by an administrator for
\* another user, when that user owns an event
ReferencedDeleteRejected ==
    [][/\ \A c \in Clients, id \in EventIds :
              /\ DeleteEvent(c, id)
              /\ id \in DOMAIN events
              /\ \/ \E r \in DOMAIN registrations : registrations[r].eventId = id
                 \/ \E q \in DOMAIN qrSettings : qrSettings[q].eventId = id
                 \/ \E f \in DOMAIN formSchemas : formSchemas[f].eventId = id
              => last'.status = 500 /\ Tables' = Tables
       /\ \A c \in Clients, id \in DOMAIN users :
              /\ DeleteUser(c, id)
              /\ requireAdmin(c).pass
              /\ ReqUser(c) # id
              /\ \E e \in DOMAIN events : events[e].userId = id
              => last'.status = 500 /\ Tables' = Tables]_vars

\* the delete of an event was answered 500 while a registration names the
\* event, which is still stored
ReferencedDeleteRejectedWitness ==
    /\ last.route = "deleteEvent"
    /\ last.status = 500
    /\ \E r \in DOMAIN registrations : registrations[r].eventId \in DOMAIN events
    /\ qrSettings = << >> /\ formSchemas = << >>

\* ----------------------------------------------------------- failed logins
\* users sign in and mistype, administrators ban and delete users, time
\* passes
NextFailed ==
    \/ \E c \in Clients, u \in {"root", "alice", "nobody"}, p \in LoginPasswords : Login(c, u, p)
    \/ \E c \in {"c1"}, id \in {3} : BanUser(c, id)
    \/ \E c \in {"c1"}, id \in {3} : DeleteUser(c, id)
    \/ Tick

SpecFailed == Init /\ [][NextFailed]_vars

server == <<users, nextUserId, sessions, nextSid, cookie, kicked, events, nextEventId,
            qrSettings, nextQrId, pc, pend, now, last, registrations, nextRegId,
            formSchemas, nextFormId, exportCount, exportsHandled, expire>>

Builders == {"FormBuilder", "PageBuilder"}

\* the palettes: type and label of each entry
FIELD_TYPES ==
    <<[type |-> "text", label |-> "Text Input"], [type |-> "email", label |-> "Email"],
      [type |-> "phone", label |-> "Phone"], [type |-> "textarea", label |-> "Text Area"],
      [type |-> "select", label |-> "Dropdown"], [type |-> "checkbox", label |-> "Checkbox"],
      [type |-> "radio", label |-> "Radio Button"], [type |-> "file", label |-> "File Upload"]>>

BIG_FIELD_TYPES ==
    <<[type |-> "text", label |-> "Text Input"], [type |-> "email", label |-> "Email Address"],
      [type |-> "phone", label |-> "Phone Number"], [type |-> "textarea", label |-> "Text Area"],
      [type |-> "select", label |-> "Dropdown Select"],
      [type |-> "checkbox", label |-> "Checkbox Group"],
      [type |-> "radio", label |-> "Radio Buttons"], [type |-> "file", label |-> "File Upload"]>>

\* the palette of the mounted component
Palette == IF mounted = "PageBuilder" THEN BIG_FIELD_TYPES ELSE FIELD_TYPES

\* the palette entries that are clicked or dragged, by their index
PaletteIndexes == {0, 4}

\* arr[index] of an array, whose indexes start at 0
At(arr, index) == arr[index + 1]

\* what Array.prototype.splice(start, deleteCount, ...items) leaves in the
\* array and what it returns
splice(arr, start, deleteCount, items) ==
    LET from == IF start > Len(arr) THEN Len(arr) ELSE start
        upto == IF from + deleteCount > Len(arr) THEN Len(arr) ELSE from + deleteCount
    IN [array |-> SubSeq(arr, 1, from) \o items \o SubSeq(arr, upto + 1, Len(arr)),
        removed |-> SubSeq(arr, from + 1, upto)]

\* { ...field, ...updates }
Spread(field, updates) == updates @@ field

\* the field addField makes
NewField(fieldType) ==
    [id |-> nanoids + 1,
     type |-> fieldType,
     label |-> (CHOOSE f \in {Palette[i] : i \in DOMAIN Palette} : f.type = fieldType).label,
     placeholder |-> "",
     required |-> FALSE,
     options |-> IF fieldType \in {"select", "radio", "checkbox"}
                 THEN <<"Option 1", "Option 2">> ELSE << >>]

addField(fieldType) ==
    /\ fields' = fields \o <<NewField(fieldType)>>
    /\ selectedField' = NewField(fieldType)
    /\ nanoids' = nanoids + 1

updateFieldOnlyInList(fieldId, updates) ==
    /\ fields' = [i \in DOMAIN fields |->
                     IF fields[i].id = fieldId THEN Spread(fields[i], updates) ELSE fields[i]]
    /\ UNCHANGED <<selectedField, nanoids>>

updateField(fieldId, updates) ==
    /\ fields' = [i \in DOMAIN fields |->
                     IF fields[i].id = fieldId THEN Spread(fields[i], updates) ELSE fields[i]]
    /\ selectedField' = IF selectedField # Null /\ selectedField.id = fieldId
                        THEN Spread(selectedField, updates) ELSE selectedField
    /\ UNCHANGED nanoids

removeField(fieldId) ==
    /\ fields' = SelectSeq(fields, LAMBDA field : field.id # fieldId)
    /\ selectedField' = IF selectedField # Null /\ selectedField.id = fieldId
                        THEN Null ELSE selectedField
    /\ UNCHANGED nanoids

\* the Droppables a component renders: <Droppable droppableId=... type=...
\* isDropDisabled>; a Droppable without a type has the type "DEFAULT"
Droppables ==
    IF mounted = "PageBuilder"
    THEN [palette |-> [droppableId |-> "field-palette", type |-> "DEFAULT",
                       isDropDisabled |-> TRUE],
          canvas |-> [droppableId |-> "form-fields", type |-> "DEFAULT",
                      isDropDisabled |-> FALSE]]
    ELSE [palette |-> [droppableId |-> "field-palette", type |-> "add-field",
                       isDropDisabled |-> TRUE],
          canvas |-> [droppableId |-> "form-fields", type |-> "reorder-fields",
                      isDropDisabled |-> FALSE]]

Droppable(droppableId) ==
    IF droppableId = "field-palette" THEN Droppables.palette ELSE Droppables.canvas

\* the DropResult the drag-and-drop library hands to onDragEnd when the
\* Draggable at source is released over the place over (Null: over no
\* Droppable): a Draggable has the type of the Droppable it is rendered in
\* and is accepted only by an enabled Droppable of that type
DropResult(source, over) ==
    [source |-> source,
     type |-> Droppable(source.droppableId).type,
     destination |->
         IF over = Null THEN Null
         ELSE IF Droppable(over.droppableId).isDropDisabled THEN Null
         ELSE IF Droppable(over.droppableId).type # Droppable(source.droppableId).type THEN Null
         ELSE over]

\* const newFields = Array.from(fields); const [reorderedField] =
\* newFields.splice(source.index, 1); newFields.splice(destination.index, 0,
\* reorderedField); setFields(newFields)
reorder(source, destination) ==
    LET taken == splice(fields, source.index, 1, << >>) IN
    /\ fields' = splice(taken.array, destination.index, 0, taken.removed).array
    /\ UNCHANGED <<selectedField, nanoids>>

\* FormBuilder.handleDragEnd
FormBuilderHandleDragEnd(result) ==
    IF result.destination = Null
    THEN UNCHANGED <<fields, selectedField, nanoids>>
    ELSE IF result.type = "add-field"
    THEN addField(At(FIELD_TYPES, result.source.index).type)
    ELSE IF result.type = "reorder-fields"
    THEN reorder(result.source, result.destination)
    ELSE UNCHANGED <<fields, selectedField, nanoids>>

\* PageBuilder.handleDragEnd
PageBuilderHandleDragEnd(result) ==
    IF result.destination = Null
    THEN UNCHANGED <<fields, selectedField, nanoids>>
    ELSE IF /\ result.source.droppableId = "field-palette"
            /\ result.destination.droppableId = "form-fields"
    THEN addField(At(BIG_FIELD_TYPES, result.source.index).type)
    ELSE IF /\ result.source.droppableId = "form-fields"
            /\ result.destination.droppableId = "form-fields"
    THEN reorder(result.source, result.destination)
    ELSE UNCHANGED <<fields, selectedField, nanoids>>

\* setIsDragging(false) and the rest of the component's handleDragEnd
handleDragEnd(result) ==
    /\ isDragging' = FALSE
    /\ IF mounted = "PageBuilder"
       THEN PageBuilderHandleDragEnd(result)
       ELSE FormBuilderHandleDragEnd(result)

\* setIsDragging(true)
handleDragStart == isDragging' = TRUE

\* what Partial<FormField> the field editor hands to onUpdate
Updates == {[label |-> "Name", required |-> TRUE]}

\* the places a drag starts from and ends over
Sources ==
    {[droppableId |-> "field-palette", index |-> i] : i \in PaletteIndexes}
        \cup {[droppableId |-> "form-fields", index |-> i] : i \in 0..(Len(fields) - 1)}

Overs(source) ==
    {Null, [droppableId |-> "field-palette", index |-> 0]}
        \cup {[droppableId |-> "form-fields", index |-> i] :
                 i \in 0..(IF source.droppableId = "form-fields"
                           THEN Len(fields) - 1 ELSE Len(fields))}

\* the schemas a builder is opened on
InitialSchemas ==
    {<< >>,
     <<[id |-> 1, type |-> "text", label |-> "Text Input Field", placeholder |-> "",
        required |-> FALSE, options |-> << >>],
       [id |-> 2, type |-> "email", label |-> "Email Field", placeholder |-> "",
        required |-> TRUE, options |-> << >>]>>}

\* room for one more field
Room == Len(fields) < MaxFields /\ nanoids < MaxNanoids

\* a click on a card of the palette: onClick={() => addField(fieldType.type)}
ClickPalette(index) ==
    /\ mounted = "PageBuilder"
    /\ ~isDragging
    /\ Room
    /\ addField(At(BIG_FIELD_TYPES, index).type)
    /\ UNCHANGED <<server, mounted, isDragging>>

\* onClick={() => setSelectedField(field)}
SelectField(index) ==
    /\ mounted \in Builders
    /\ ~isDragging
    /\ index < Len(fields)
    /\ selectedField' = At(fields, index)
    /\ UNCHANGED <<server, mounted, fields, nanoids, isDragging>>

\* onClose={() => setSelectedField(null)}
CloseEditor ==
    /\ mounted \in Builders
    /\ ~isDragging
    /\ selectedField # Null
    /\ selectedField' = Null
    /\ UNCHANGED <<server, mounted, fields, nanoids, isDragging>>

\* onUpdate={(updates) => updateField(selectedField.id, updates)} of the
\* editor, which is rendered while a field is selected
EditField(updates) ==
    /\ mounted \in Builders
    /\ ~isDragging
    /\ selectedField # Null
    /\ updateField(selectedField.id, updates)
    /\ UNCHANGED <<server, mounted, isDragging>>

\* onClick={() => removeField(field.id)}
ClickRemove(index) ==
    /\ mounted \in Builders
    /\ ~isDragging
    /\ index < Len(fields)
    /\ removeField(At(fields, index).id)
    /\ UNCHANGED <<server, mounted, isDragging>>

\* <DragDropContext onDragStart={handleDragStart}>: a card or a field is
\* picked up
DragStart ==
    /\ mounted \in Builders
    /\ ~isDragging
    /\ handleDragStart
    /\ UNCHANGED <<server, mounted, fields, selectedField, nanoids>>

\* <DragDropContext onDragEnd={handleDragEnd}>: it is released
DragEnd(source, over) ==
    /\ mounted \in Builders
    /\ isDragging
    /\ Room \/ source.droppableId # "field-palette"
    /\ handleDragEnd(DropResult(source, over))
    /\ UNCHANGED <<server, mounted>>

InitBuilder ==
    /\ InitServer((1 :> SeedUser("root", "root@x.com", "admin"))
                  @@ (2 :> SeedUser("ops", "ops@x.com", "admin"))
                  @@ (3 :> SeedUser("alice", "a@x.com", "user")))
    /\ \E component \in Builders, initialSchema \in InitialSchemas :
           Mount(component, initialSchema)

NextBuilder ==
    \/ DragStart
    \/ \E index \in PaletteIndexes : ClickPalette(index)
    \/ \E index \in 0..(MaxFields - 1) : SelectField(index)
    \/ CloseEditor
    \/ \E updates \in Updates : EditField(updates)
    \/ \E index \in 0..(MaxFields - 1) : ClickRemove(index)
    \/ \E source \in Sources : \E over \in Overs(source) : DragEnd(source, over)

SpecBuilder == InitBuilder /\ [][NextBuilder]_vars

\* C29: selectedField is null or has the id of a field of fields and is
\* equal to that field; removing the selected field sets selectedField to
\* null
SelectedFieldInFields ==
    [][/\ selectedField' = Null
          \/ \E i \in DOMAIN fields' :
                /\ fields'[i].id = selectedField'.id
                /\ fields'[i] = selectedField'
       /\ \A index \in 0..(MaxFields - 1) :
              /\ ClickRemove(index)
              /\ selectedField # Null
              /\ selectedField.id = At(fields, index).id
              => selectedField' = Null]_vars

\* an edited field is selected and is not the first of fields
SelectedFieldInFieldsWitness ==
    /\ selectedField # Null
    /\ selectedField.label = "Name"
    /\ Len(fields) = 3
    /\ fields[1].id # selectedField.id
    /\ \E i \in DOMAIN fields : fields[i] = selectedField

\* C30: a drag within the form canvas from index s to index d leaves a
\* permutation of fields, of the same length and the same ids, with the
\* moved field at index d and the other fields in their order; a drop
\* without a destination leaves fields as they are; a palette card dropped
\* on the form canvas appends one new field of the card's type at the end
DragEndReordersOrAppends ==
    [][\A source \in Sources : \A over \in Overs(source) :
          DragEnd(source, over)
          => /\ /\ source.droppableId = "form-fields"
                /\ over # Null
                /\ over.droppableId = "form-fields"
                => /\ Len(fields') = Len(fields)
                   /\ {fields'[i].id : i \in DOMAIN fields'} =
                          {fields[i].id : i \in DOMAIN fields}
                   /\ At(fields', over.index) = At(fields, source.index)
                   /\ SelectSeq(fields', LAMBDA f : f # At(fields, source.index)) =
                          SelectSeq(fields, LAMBDA f : f # At(fields, source.index))
             /\ DropResult(source, over).destination = Null => fields' = fields
             /\ /\ source.droppableId = "field-palette"
                /\ over # Null
                /\ over.droppableId = "form-fields"
                => /\ Len(fields') = Len(fields) + 1
                   /\ SubSeq(fields', 1, Len(fields)) = fields
                   /\ fields'[Len(fields')].type = At(Palette, source.index).type
                   /\ \A i \in DOMAIN fields : fields[i].id # fields'[Len(fields')].id]_vars

====
